---- MODULE Spec2Model ----
(***************************************************************************)
(* p5js-ai-editor: the command relay (websocket-bridge-server.js), the     *)
(* controller adapter (p5js-mcp-server-ts/src/index.ts), the session event *)
(* listener (components/editor-ui/WebSocketListener.tsx), the project page *)
(* (app/project/[id]/page.tsx) and the file explorer (FileExplorer).       *)
(*                                                                         *)
(* One module, several specifications over the same variables:             *)
(*   Spec         the relay hub with its connected peers                   *)
(*   SpecAdapter  the controller adapter: connection lifecycle and tools   *)
(*   SpecBridge   adapter -> relay -> session listener -> page state       *)
(*   SpecSession  the session listener: mount, unmount, socket, renders    *)
(*   SpecProject  the project page and file explorer operations            *)
(*   SpecFiles    file add / delete / rename only                          *)
(***************************************************************************)
EXTENDS Integers, Sequences, FiniteSets, TLC

VARIABLES
  \* ---- relay server (websocket-bridge-server.js)
  clients,      \* const clients = new Set(): the connected peers
  inbox,        \* per peer: events the relay sent to it, not yet received
  nEmitted,     \* number of events the relay has handled so far (bounded)
  lastRelay,    \* observation: the event the relay handled in the last step
  relayOut,     \* observation: what the handler emitted in that step
  emitLog,      \* observation: the senders of the events the relay handled, in order, each with the peers connected since
  inboxFrom,    \* observation: for each peer, <<sender, number>> of each event of its inbox
  received,     \* observation: for each peer, <<sender, number>> of the events it took since it connected
  relayPc,      \* the relay process: "trying" in tryPort, "binding" while listen() is pending, "serving", "exited" by process.exit(1), "crashed" by an uncaught exception
  portIndex,    \* the argument of the running tryPort call, counted from 1
  currentPort,  \* let currentPort = null
  portsInUse    \* the candidate ports other programs hold

VARIABLES
  \* ---- controller adapter (p5js-mcp-server-ts/src/index.ts)
  adapterPc,            \* "init" before main(), "running" after
  editorSocket,         \* let editorSocket: "null" or the socket's state
  reconnAttempts,       \* the socket manager's backoff.attempts
  isConnectedToEditor,  \* let isConnectedToEditor = false
  adapterOut,           \* events emitted on editorSocket, not yet at the relay
  nCalls,               \* number of tool invocations so far (bounded)
  lastCall,             \* observation: the tool invocation of the last step
  nIoCalls              \* observation: the number of io() calls so far

VARIABLES
  \* ---- session event listener (WebSocketListener.tsx)
  enableWsListener,  \* page state: the listener is mounted iff TRUE
  socks,             \* the sockets io() has created, by creation number
  nSocks,            \* how many sockets io() has created
  heartbeatRef,      \* heartbeatRef.current: 0, or the socket whose timer runs
  wsConnected,       \* const [connected, setConnected]
  callbacksRef,      \* callbacksRef.current: the project its callbacks close over
  lastDispatch       \* observation: the relay event dispatched in the last step

VARIABLES
  \* ---- project page (app/project/[id]/page.tsx) and file explorer
  project,           \* const [project, setProject]
  rendered,          \* the project the handlers of the committed render close over
  isRunning,         \* const [isRunning, setIsRunning] = useState(true)
  sidebarOpen,       \* const [sidebarOpen, setSidebarOpen] = useState(true)
  consoleMessages,   \* const [consoleMessages, setConsoleMessages]
  route,             \* the router's location: "project" or "dashboard"
  now,               \* Date.now(), a millisecond per user operation (bounded)
  lastOp,            \* observation: the user's last operation on the project
  consoleHeight,     \* useState(200): the height of the console panel in pixels
  storage,           \* localStorage: the items under current_project and p5_projects
  loadResult,        \* observation: the last load of persisted data and how it ended
  projects,          \* ProjectManager's const [projects, setProjects], as <<array>>, <<>> while it is not mounted
  autoSaved,         \* the project the page's auto-save effect ran for last
  startHeight        \* <<consoleHeight at mousedown>> during a drag of the resize handle, else <<>>

VARIABLES
  \* ---- preview (components/editor-ui/Preview.tsx)
  htmlContent,       \* the document updateIframe gave the iframe last
  previewOf,         \* the project that document was made from
  nLoads,            \* observation: the number of documents given to the iframe so far
  updateThrew        \* observation: the last updateIframe call ended with an exception

startVars == <<relayPc, portIndex, currentPort, portsInUse>>

relayVars == <<clients, inbox, nEmitted, lastRelay, relayOut,
               emitLog, inboxFrom, received, startVars>>
adapterVars == <<adapterPc, editorSocket, reconnAttempts, isConnectedToEditor,
                 adapterOut, nCalls, lastCall, nIoCalls>>
sessionVars == <<enableWsListener, socks, nSocks, heartbeatRef, wsConnected,
                 callbacksRef, lastDispatch>>
consoleVars == <<consoleHeight, startHeight>>

managerVars == <<projects, autoSaved>>

loadVars == <<storage, loadResult, managerVars>>

pageVars == <<project, rendered, isRunning, sidebarOpen, consoleMessages,
              route, now, lastOp, consoleVars, loadVars>>

previewVars == <<htmlContent, previewOf, nLoads, updateThrew>>

vars == <<relayVars, adapterVars, sessionVars, pageVars, previewVars>>

(***************************************************************************)
(* Bounds                                                                  *)
(***************************************************************************)
MaxEmits == 2      \* events the relay handles in one behaviour
MaxCalls == 2      \* tool invocations in one behaviour
MaxSockets == 2    \* times the listener is mounted (io() calls)
MaxOps == 3        \* user operations on the page in one behaviour

None == [none |-> TRUE]

(***************************************************************************)
(* JavaScript strings                                                      *)
(***************************************************************************)
CharAt(s, i) == SubSeq(s, i, i)

\* s.lastIndexOf(c), 1-based; 0 when c does not occur
RECURSIVE LastIndexFrom(_, _, _)
LastIndexFrom(s, c, i) ==
  IF i = 0 THEN 0
  ELSE IF CharAt(s, i) = c THEN i
  ELSE LastIndexFrom(s, c, i - 1)

\* s.split('.').pop(): the text after the last dot, all of s without a dot
SplitPop(s) ==
  LET i == LastIndexFrom(s, ".", Len(s))
  IN SubSeq(s, i + 1, Len(s))

LowerChar(c) ==
  CASE c = "A" -> "a" [] c = "B" -> "b" [] c = "C" -> "c" [] c = "D" -> "d"
    [] c = "E" -> "e" [] c = "F" -> "f" [] c = "G" -> "g" [] c = "H" -> "h"
    [] c = "I" -> "i" [] c = "J" -> "j" [] c = "K" -> "k" [] c = "L" -> "l"
    [] c = "M" -> "m" [] c = "N" -> "n" [] c = "O" -> "o" [] c = "P" -> "p"
    [] c = "Q" -> "q" [] c = "R" -> "r" [] c = "S" -> "s" [] c = "T" -> "t"
    [] c = "U" -> "u" [] c = "V" -> "v" [] c = "W" -> "w" [] c = "X" -> "x"
    [] c = "Y" -> "y" [] c = "Z" -> "z" [] OTHER -> c

\* s.toLowerCase()
RECURSIVE ToLowerCase(_)
ToLowerCase(s) ==
  IF s = "" THEN ""
  ELSE LowerChar(CharAt(s, 1)) \o ToLowerCase(SubSeq(s, 2, Len(s)))

\* s.trim(), for the blank characters the bounded names contain
RECURSIVE TrimStart(_)
TrimStart(s) ==
  IF s # "" /\ CharAt(s, 1) = " " THEN TrimStart(SubSeq(s, 2, Len(s))) ELSE s

RECURSIVE TrimEnd(_)
TrimEnd(s) ==
  IF s # "" /\ CharAt(s, Len(s)) = " "
    THEN TrimEnd(SubSeq(s, 1, Len(s) - 1)) ELSE s

Trim(s) == TrimEnd(TrimStart(s))

\* one character of a RegExp source built from a file name: "." matches any
\* character but a line break, every other character of the bounded names
\* (letters, digits, blank) matches itself
RegExpCharMatches(pc, c) == IF pc = "." THEN c # "\n" ELSE pc = c

\* new RegExp(`${attr}=["']${name}["']`) matches content at position i
RefMatchesAt(content, i, attr, name) ==
  LET a == Len(attr)
      n == Len(name)
  IN /\ i + a + n + 2 <= Len(content)
     /\ SubSeq(content, i, i + a) = attr \o "="
     /\ CharAt(content, i + a + 1) \in {"\"", "'"}
     /\ \A k \in 1..n :
          RegExpCharMatches(CharAt(name, k), CharAt(content, i + a + 1 + k))
     /\ CharAt(content, i + a + n + 2) \in {"\"", "'"}

\* the positions from i on where the RegExp matches
MatchesFrom(content, i, attr, name) ==
  {j \in i..Len(content) : RefMatchesAt(content, j, attr, name)}

\* content.replace(new RegExp(`${attr}=["']${name}["']`, 'g'), `${attr}="${to}"`):
\* the matches are replaced from left to right, the search resuming behind
\* each match
RECURSIVE ReplaceRefsFrom(_, _, _, _, _)
ReplaceRefsFrom(content, i, attr, name, to) ==
  LET ms == MatchesFrom(content, i, attr, name)
  IN IF ms = {} THEN SubSeq(content, i, Len(content))
     ELSE LET j == CHOOSE m \in ms : \A m2 \in ms : m <= m2
          IN SubSeq(content, i, j - 1) \o attr \o "=\"" \o to \o "\""
             \o ReplaceRefsFrom(content, j + Len(attr) + Len(name) + 3, attr, name, to)

ReplaceRefs(content, attr, name, to) == ReplaceRefsFrom(content, 1, attr, name, to)

(***************************************************************************)
(* Relay events.  An event is a name and the arguments of emit(name, ...). *)
(***************************************************************************)
Ev(n, a) == [name |-> n, args |-> a]

\* The peers of the relay: the controller adapter, a browser session, and
\* one more peer (a second browser tab or a test client).
Peers == {"mcp", "web", "tab2"}

\* command events without a payload (websocket-bridge-server.js:87..154)
NoPayloadCommands ==
  {"startExecution", "stopExecution", "toggleExecution", "clearConsole",
   "toggleSidebar", "backToDashboard"}

\* command events with one payload argument (websocket-bridge-server.js:77..148)
PayloadCommands ==
  {"codeUpdate", "addConsoleMessage", "setConsoleHeight", "selectFile",
   "closeTab", "createFile", "deleteFile", "updateProjectName"}

CommandEvents == NoPayloadCommands \cup PayloadCommands

\* names the relay registers a handler for that only logs
ResponseEvents == {"projectState", "getProjectState"}

\* a name the relay has no socket.on(...) handler for
UnknownEvents == {"customEvent"}

\* opaque, non-null payload values as a generic peer sends them
Payloads == {[v |-> "p1"], [v |-> "p2"]}

\* the events a generic peer sends
PeerEvents ==
  {Ev(n, <<>>) : n \in NoPayloadCommands \cup {"getProjectState"}}
  \cup {Ev(n, <<p>>) : n \in PayloadCommands \cup {"ping", "projectState"}
                                \cup UnknownEvents,
                       p \in Payloads}

(***************************************************************************)
(* Relay handlers: setupServerHandlers.  A handler returns the set of      *)
(* <<recipient, event>> pairs it emits for an event `ev` received on the   *)
(* socket of peer `socket`.                                                *)
(***************************************************************************)

\* (faulty variant) a broadcast that also reaches the sending socket, as io.emit does
BroadcastEmit_ToAll(socket, e) == {<<q, e>> : q \in clients}

\* socket.broadcast.emit(name, ...args): every connected socket but this one
BroadcastEmit(socket, e) == {<<q, e>> : q \in clients \ {socket}}

\* socket.emit(name, ...args): this socket only
SocketEmit(socket, e) == {<<socket, e>>}

\* the socket.on(name, ...) handler the relay registers for `ev.name`
RelayHandler(socket, ev) ==
  CASE ev.name = "ping" ->
         \* :68  socket.on('ping', (data) => socket.emit('pong', data))
         SocketEmit(socket, Ev("pong", ev.args))
    [] ev.name \in PayloadCommands ->
         \* :77..148  socket.on(n, (data) => socket.broadcast.emit(n, data))
         BroadcastEmit(socket, Ev(ev.name, ev.args))
    [] ev.name \in NoPayloadCommands ->
         \* :87..154  socket.on(n, () => socket.broadcast.emit(n))
         BroadcastEmit(socket, Ev(ev.name, <<>>))
    [] ev.name \in ResponseEvents ->
         \* :159, :164  logged only
         {}
    [] OTHER ->
         \* :169  socket.onAny: logged only
         {}

\* a payload that is null; a missing payload is an event without arguments
NullPayload == [null |-> TRUE]

\* the handlers that read a property of their payload before anything else:
\* data.code (:79), fileData.name (:130), data.projectName (:160)
PayloadReaders == {"codeUpdate", "createFile", "projectState"}

\* the handler of ev throws a TypeError: a property of undefined or null
HandlerThrows(ev) ==
  /\ ev.name \in PayloadReaders
  /\ (ev.args = <<>> \/ ev.args[1] = NullPayload)

\* io.on('connection', socket => clients.add(socket))
OnConnection(p) ==
  /\ relayPc = "serving"
  /\ p \notin clients
  /\ clients' = clients \cup {p}
  /\ lastRelay' = None
  /\ relayOut' = {}
  /\ UNCHANGED <<inbox, nEmitted, emitLog, inboxFrom, received, startVars>>

\* socket.on('disconnect', () => clients.delete(socket)); what was still
\* in flight to the peer is lost with its connection
OnDisconnect(p) ==
  /\ relayPc = "serving"
  /\ p \in clients
  /\ clients' = clients \ {p}
  /\ inbox' = [inbox EXCEPT ![p] = <<>>]
  /\ lastRelay' = None
  /\ relayOut' = {}
  /\ emitLog' = [k \in DOMAIN emitLog |->
                   [emitLog[k] EXCEPT !.others = emitLog[k].others \ {p}]]
  /\ inboxFrom' = [inboxFrom EXCEPT ![p] = <<>>]
  /\ received' = [received EXCEPT ![p] = <<>>]
  /\ UNCHANGED <<nEmitted, startVars>>

\* (faulty variant) a transport that hands the newest emit over first
Deliver_NewestFirst(box, out) ==
  [q \in Peers |->
     IF \E pr \in out : pr[1] = q
       THEN <<(CHOOSE pr \in out : pr[1] = q)[2]>> \o box[q]
       ELSE box[q]]

\* the inboxes `box` of the peers after the relay emitted the pairs in `out`:
\* each emit is written to the recipient's connection behind the earlier ones
Deliver(box, out) ==
  [q \in Peers |->
     IF \E pr \in out : pr[1] = q
       THEN box[q] \o <<(CHOOSE pr \in out : pr[1] = q)[2]>>
       ELSE box[q]]

\* the sender and the number of the event the relay handles now
Origin(p) == [from |-> p, seq |-> nEmitted + 1]

\* an event of connected peer p arrives at the relay and its handler runs
\* A handler that throws ends the relay process: nothing catches the
\* exception (no try in the handlers, no 'uncaughtException' listener).
OnEvent(p, ev) ==
  /\ relayPc = "serving"
  /\ p \in clients
  /\ nEmitted < MaxEmits
  /\ nEmitted' = nEmitted + 1
  /\ lastRelay' = [from |-> p, ev |-> ev, others |-> clients \ {p}]
  /\ IF HandlerThrows(ev)
       THEN /\ relayPc' = "crashed"
            /\ relayOut' = {}
            /\ UNCHANGED <<inbox, emitLog, inboxFrom>>
       ELSE /\ relayOut' = RelayHandler(p, ev)
            /\ inbox' = Deliver(inbox, RelayHandler(p, ev))
            /\ emitLog' = Append(emitLog, [from |-> p, seq |-> nEmitted + 1,
                                            command |-> ev.name \in CommandEvents,
                                            others |-> clients \ {p}])
            /\ inboxFrom' = Deliver(inboxFrom, {<<pr[1], Origin(p)>> : pr \in RelayHandler(p, ev)})
            /\ UNCHANGED relayPc
  /\ UNCHANGED <<clients, received, portIndex, currentPort, portsInUse>>

\* peer q takes the next event the relay sent to it
TakeFromInbox(q) ==
  /\ inbox[q] # <<>>
  /\ inbox' = [inbox EXCEPT ![q] = Tail(inbox[q])]
  /\ inboxFrom' = [inboxFrom EXCEPT ![q] = Tail(inboxFrom[q])]
  /\ received' = [received EXCEPT ![q] = Append(received[q], Head(inboxFrom[q]))]
  /\ lastRelay' = None
  /\ relayOut' = {}
  /\ UNCHANGED <<clients, nEmitted, emitLog, startVars>>

\* const tryPorts = [3001, 3002, 3003, 3004]
tryPorts == <<3001, 3002, 3003, 3004>>

CandidatePorts == {tryPorts[i] : i \in 1..Len(tryPorts)}

\* let currentPort = null
NoPort == 0

\* a step of startServer leaves the peers alone
StartStep ==
  UNCHANGED <<clients, inbox, nEmitted, lastRelay, relayOut, emitLog,
              inboxFrom, received, portsInUse>>

\* tryPort(portIndex) with portIndex >= tryPorts.length: process.exit(1)
TryPortGivesUp ==
  /\ relayPc = "trying"
  /\ portIndex > Len(tryPorts)
  /\ relayPc' = "exited"
  /\ UNCHANGED <<portIndex, currentPort>>
  /\ StartStep

\* tryPort(portIndex): io = new Server(port, ...) returns.  The constructor
\* creates the HTTP server and calls listen(port), whose outcome arrives
\* later; the try block goes on: currentPort = port; setupServerHandlers()
TryPortCreatesServer ==
  /\ relayPc = "trying"
  /\ portIndex <= Len(tryPorts)
  /\ currentPort' = tryPorts[portIndex]
  /\ relayPc' = "binding"
  /\ UNCHANGED portIndex
  /\ StartStep

\* tryPort(portIndex): new Server(port, ...) throws an error whose code is
\* EADDRINUSE; the catch block calls tryPort(portIndex + 1)
TryPortCatchesInUse ==
  /\ relayPc = "trying"
  /\ portIndex <= Len(tryPorts)
  /\ tryPorts[portIndex] \in portsInUse
  /\ portIndex' = portIndex + 1
  /\ UNCHANGED <<relayPc, currentPort>>
  /\ StartStep

\* the pending listen(port) binds the port
ListenSucceeds ==
  /\ relayPc = "binding"
  /\ currentPort \notin portsInUse
  /\ relayPc' = "serving"
  /\ UNCHANGED <<portIndex, currentPort>>
  /\ StartStep

\* the pending listen(port) fails: the HTTP server emits 'error' (EADDRINUSE)
\* after tryPort has returned; no listener is registered for it, so it is an
\* uncaught exception and the process ends
ListenEmitsError ==
  /\ relayPc = "binding"
  /\ currentPort \in portsInUse
  /\ relayPc' = "crashed"
  /\ UNCHANGED <<portIndex, currentPort>>
  /\ StartStep

\* the relay before startServer() runs, some candidate ports being taken
StartInit ==
  /\ relayPc = "trying"
  /\ portIndex = 1
  /\ currentPort = NoPort
  /\ portsInUse \in SUBSET CandidatePorts

\* the relay serving on its default port
StartedInit ==
  /\ relayPc = "serving"
  /\ portIndex = 1
  /\ currentPort = tryPorts[1]
  /\ portsInUse = {}

PeersInit ==
  /\ clients = {}
  /\ inbox = [q \in Peers |-> <<>>]
  /\ nEmitted = 0
  /\ lastRelay = None
  /\ relayOut = {}
  /\ emitLog = <<>>
  /\ inboxFrom = [q \in Peers |-> <<>>]
  /\ received = [q \in Peers |-> <<>>]

RelayInit == PeersInit /\ StartedInit

(***************************************************************************)
(* Controller adapter: p5js-mcp-server-ts/src/index.ts                     *)
(***************************************************************************)

\* JavaScript values as the adapter passes them to emit
Undefined == [undefined |-> TRUE]
Str(s) == [str |-> s]

\* if (data): undefined and the empty string are falsy, objects and
\* non-empty strings are truthy
Truthy(data) ==
  /\ data # Undefined
  /\ ("str" \in DOMAIN data => data.str # "")

\* argument values the invoking agent may pass
Strings == {"", "a"}
MessageTypes == {"info", "warn", "error"}     \* z.enum(["info","warn","error"])
Timestamps == {1000}                          \* Date.now() of the adapter

NoArgs == [none |-> TRUE]

\* the tool catalog with every argument record of the bounded domains
ToolCalls ==
  {[op |-> "update_code", args |-> [code |-> c]] : c \in Strings}
  \cup {[op |-> o, args |-> NoArgs] :
          o \in {"start_execution", "stop_execution", "toggle_execution",
                 "clear_console", "toggle_sidebar", "go_to_dashboard",
                 "check_connection"}}
  \cup {[op |-> "add_console_message", args |-> [message |-> m, type |-> t]] :
          m \in Strings, t \in MessageTypes}
  \cup {[op |-> o, args |-> [filename |-> f]] :
          o \in {"select_file", "delete_file"}, f \in Strings}
  \cup {[op |-> "create_file", args |-> [name |-> n, content |-> c]] :
          n \in Strings, c \in Strings}
  \cup {[op |-> "update_project_name", args |-> [name |-> n]] : n \in Strings}

\* the event name each tool passes to sendToEditor (index.ts:90..277)
ToolEvent(op) ==
  CASE op = "update_code" -> "codeUpdate"
    [] op = "start_execution" -> "startExecution"
    [] op = "stop_execution" -> "stopExecution"
    [] op = "toggle_execution" -> "toggleExecution"
    [] op = "clear_console" -> "clearConsole"
    [] op = "add_console_message" -> "addConsoleMessage"
    [] op = "select_file" -> "selectFile"
    [] op = "create_file" -> "createFile"
    [] op = "delete_file" -> "deleteFile"
    [] op = "toggle_sidebar" -> "toggleSidebar"
    [] op = "update_project_name" -> "updateProjectName"
    [] op = "go_to_dashboard" -> "backToDashboard"

\* the data each tool passes to sendToEditor; t is Date.now()
ToolData(op, args, t) ==
  CASE op = "update_code" -> [code |-> args.code]
    [] op = "add_console_message" ->
         [type |-> args.type, message |-> args.message, timestamp |-> t]
    [] op = "select_file" -> Str(args.filename)
    [] op = "create_file" -> [name |-> args.name, content |-> args.content]
    [] op = "delete_file" -> Str(args.filename)
    [] op = "update_project_name" -> Str(args.name)
    [] OTHER -> Undefined

\* sendToEditor, the guard: if (!editorSocket || !isConnectedToEditor)
SendGuardFails ==
  editorSocket = "null" \/ ~isConnectedToEditor

\* sendToEditor, the emit: if (data) emit(event, data) else emit(event)
SendEmits(event, data) ==
  IF Truthy(data) THEN <<Ev(event, <<data>>)>> ELSE <<Ev(event, <<>>)>>

\* sendToEditor(event, data): <<resolved value, events emitted>>
sendToEditor(event, data) ==
  IF SendGuardFails
    THEN <<FALSE, <<>>>>
    ELSE <<TRUE, SendEmits(event, data)>>

\* (faulty variant) a disconnect handler that leaves the flag as it is
OnDisconnectFlag_Kept == isConnectedToEditor

\* editorSocket.on('disconnect', () => { isConnectedToEditor = false })
OnDisconnectFlag == FALSE

\* (faulty variant) one reconnection attempt more than configured
ReconnectionAttempts_OneMore == 5 + 1

\* reconnectionAttempts: 5 (index.ts:31)
ReconnectionAttempts == 5

\* main(): connectToEditor() creates the one socket, which starts to connect
ConnectToEditor ==
  /\ adapterPc = "init"
  /\ adapterPc' = "running"
  /\ editorSocket' = "connecting"
  /\ nIoCalls' = nIoCalls + 1
  /\ lastCall' = None
  /\ UNCHANGED <<reconnAttempts, isConnectedToEditor, adapterOut, nCalls>>

\* the socket connects: editorSocket.on('connect', ...)
EditorOnConnect ==
  /\ editorSocket = "connecting"
  /\ editorSocket' = "connected"
  /\ reconnAttempts' = 0
  /\ isConnectedToEditor' = TRUE
  /\ lastCall' = None
  /\ UNCHANGED <<adapterPc, adapterOut, nCalls, nIoCalls>>

\* a connection attempt fails: editorSocket.on('connect_error', ...); the
\* manager schedules the next attempt unless the attempts are used up
EditorOnConnectError ==
  /\ editorSocket = "connecting"
  /\ isConnectedToEditor' = FALSE
  /\ IF reconnAttempts >= ReconnectionAttempts
       THEN editorSocket' = "closed" /\ reconnAttempts' = 0
       ELSE editorSocket' = "waiting" /\ reconnAttempts' = reconnAttempts + 1
  /\ lastCall' = None
  /\ UNCHANGED <<adapterPc, adapterOut, nCalls, nIoCalls>>

\* the reconnection delay (reconnectionDelay: RECONNECT_INTERVAL) elapses
EditorReconnectTimer ==
  /\ editorSocket = "waiting"
  /\ editorSocket' = "connecting"
  /\ lastCall' = None
  /\ UNCHANGED <<adapterPc, reconnAttempts, isConnectedToEditor, adapterOut, nCalls,
                 nIoCalls>>

\* the connection is lost: editorSocket.on('disconnect', ...); the manager
\* starts to reconnect
EditorOnDisconnect ==
  /\ editorSocket = "connected"
  /\ editorSocket' = "waiting"
  /\ reconnAttempts' = 1
  /\ isConnectedToEditor' = OnDisconnectFlag
  /\ lastCall' = None
  /\ UNCHANGED <<adapterPc, adapterOut, nCalls, nIoCalls>>

\* the result a tool returns for the value sendToEditor resolved to
ToolResult(op, success) ==
  [success |-> success,
   isError |-> (op = "update_code" /\ ~success)]

\* server.tool(op, ...): one invocation by the external agent
Tool(call, t) ==
  /\ adapterPc = "running"
  /\ nCalls < MaxCalls
  /\ nCalls' = nCalls + 1
  /\ IF call.op = "check_connection"
       THEN /\ lastCall' = [op |-> call.op, args |-> call.args, now |-> t,
                            live |-> (editorSocket = "connected"),
                            result |-> [success |-> isConnectedToEditor,
                                        isError |-> FALSE],
                            emitted |-> <<>>]
            /\ UNCHANGED adapterOut
       ELSE LET r == sendToEditor(ToolEvent(call.op),
                                  ToolData(call.op, call.args, t))
            IN /\ lastCall' = [op |-> call.op, args |-> call.args, now |-> t,
                               live |-> (editorSocket = "connected"),
                               result |-> ToolResult(call.op, r[1]),
                               emitted |-> r[2]]
               /\ adapterOut' = adapterOut \o r[2]
  /\ UNCHANGED <<adapterPc, editorSocket, reconnAttempts, isConnectedToEditor,
                 nIoCalls>>

\* an emitted event leaves the adapter's socket
EditorSocketSend ==
  /\ adapterOut # <<>>
  /\ editorSocket = "connected"
  /\ adapterOut' = Tail(adapterOut)
  /\ lastCall' = None
  /\ UNCHANGED <<adapterPc, editorSocket, reconnAttempts, isConnectedToEditor, nCalls,
                 nIoCalls>>

AdapterInit ==
  /\ adapterPc = "init"
  /\ editorSocket = "null"
  /\ reconnAttempts = 0
  /\ isConnectedToEditor = FALSE
  /\ adapterOut = <<>>
  /\ nCalls = 0
  /\ lastCall = None
  /\ nIoCalls = 0

(***************************************************************************)
(* Project and files: lib/types.ts                                         *)
(***************************************************************************)

\* the value of Project.activeFile when it is undefined
UndefinedId == "<undefined>"

FileTypes == {"js", "html", "css", "txt", "jpg", "png", "gif", "mp3", "wav", "json"}

\* getFileTypeFromName
getFileTypeFromName(filename) ==
  LET extension == ToLowerCase(SplitPop(filename))
  IN IF extension \in FileTypes THEN extension ELSE "txt"

File(id, name, type, content) ==
  [id |-> id, name |-> name, type |-> type, content |-> content]

\* DEFAULT_PROJECT
DEFAULT_PROJECT ==
  [name |-> "Untitled Project",
   files |-> <<
     File("sketch", "sketch.js", "js",
          "function setup() {\n  createCanvas(800, 500);\n  background(240);\n}\n\nfunction draw() {\n  // Draw a circle that follows the mouse\n  fill(237, 34, 93);\n  noStroke();\n  ellipse(mouseX, mouseY, 60, 60);\n}"),
     File("index", "index.html", "html",
          "<!DOCTYPE html>\n<html>\n  <head>\n    <script src=\"https://cdnjs.cloudflare.com/ajax/libs/p5.js/1.9.0/p5.min.js\"></script>\n    <script src=\"sketch.js\"></script>\n    <link rel=\"stylesheet\" type=\"text/css\" href=\"style.css\">\n  </head>\n  <body>\n  </body>\n</html>"),
     File("style", "style.css", "css",
          "html, body {\n  margin: 0;\n  padding: 0;\n}\n\ncanvas {\n  display: block;\n}")
   >>,
   lastModified |-> 0,
   activeFile |-> "sketch",
   openTabs |-> <<"sketch", "index", "style">>]

FileIds(P) == {P.files[i].id : i \in 1..Len(P.files)}

\* array.filter(keep)
Filter(seq, keep(_)) == SelectSeq(seq, keep)

\* array.includes(x)
Includes(seq, x) == \E i \in 1..Len(seq) : seq[i] = x

(***************************************************************************)
(* Project page handlers: app/project/[id]/page.tsx.  P is the project the *)
(* handler's closure holds; the result is the argument of setProject.      *)
(***************************************************************************)

handleFileSelect(P, fileId) ==
  LET updatedOpenTabs ==
        IF Includes(P.openTabs, fileId) THEN P.openTabs
        ELSE P.openTabs \o <<fileId>>
  IN [P EXCEPT !.activeFile = fileId, !.openTabs = updatedOpenTabs]

\* files.map(file => file.id === activeFile ? {...file, content} : file)
WithActiveContent(P, content) ==
  [i \in 1..Len(P.files) |->
     IF P.files[i].id = P.activeFile
       THEN [P.files[i] EXCEPT !.content = content]
       ELSE P.files[i]]

handleFileChange(P, content, t) ==
  IF P.activeFile = UndefinedId THEN P
  ELSE [P EXCEPT !.files = WithActiveContent(P, content), !.lastModified = t]

\* handleCloseTab: the file that is active after the active tab was closed
CloseTabActive(P, updatedOpenTabs) ==
  IF Len(updatedOpenTabs) > 0 THEN updatedOpenTabs[1] ELSE UndefinedId

handleCloseTab(P, fileId, t) ==
  LET keep(id) == id # fileId
      updatedOpenTabs == Filter(P.openTabs, keep)
      activeFile == IF P.activeFile = fileId
                      THEN CloseTabActive(P, updatedOpenTabs)
                      ELSE P.activeFile
  IN [P EXCEPT !.openTabs = updatedOpenTabs, !.activeFile = activeFile,
               !.lastModified = t]

\* a faulty variant: the code goes to the first file, not to the active one
handleCodeUpdate_FirstFile(P, code, t) ==
  IF P.activeFile = UndefinedId THEN P
  ELSE [P EXCEPT !.files[1].content = code, !.lastModified = t]

handleCodeUpdate(P, code, t) ==
  IF P.activeFile = UndefinedId THEN P
  ELSE [P EXCEPT !.files = WithActiveContent(P, code), !.lastModified = t]

(***************************************************************************)
(* File explorer handlers: components/editor-ui/FileExplorer.tsx           *)
(***************************************************************************)

\* `file-${Date.now()}`
NewFileId(t) == "file-" \o ToString(t)

\* handleAddFile: the default content by file type
DefaultContent(fileType) ==
  CASE fileType = "js" -> "// Your code goes here\n"
    [] fileType = "html" ->
         "<!DOCTYPE html>\n<html>\n<head>\n  <title>Page Title</title>\n</head>\n<body>\n\n</body>\n</html>"
    [] fileType = "css" -> "/* Your styles go here */\n"
    [] OTHER -> ""

handleAddFile(P, newFileName, t) ==
  IF newFileName = "" THEN P
  ELSE LET fileId == NewFileId(t)
           fileType == getFileTypeFromName(newFileName)
           newFile == File(fileId, newFileName, fileType, DefaultContent(fileType))
       IN [P EXCEPT !.files = P.files \o <<newFile>>, !.activeFile = fileId,
                    !.lastModified = t]

\* handleFileUpload, reader.onload: a file read without content changes nothing
handleFileUpload(P, fileName, content, t) ==
  IF content = "" THEN P
  ELSE LET fileId == NewFileId(t)
           fileType == getFileTypeFromName(fileName)
           newFile == File(fileId, fileName, fileType, content)
       IN [P EXCEPT !.files = P.files \o <<newFile>>, !.activeFile = fileId,
                    !.lastModified = t]

\* (faulty variant) deleting the active file keeps it as the active file
DeleteActive_Kept(P, updatedFiles) == P.activeFile

\* (faulty variant) deleting the active file activates the last remaining file
DeleteActive_Last(P, updatedFiles) ==
  IF Len(updatedFiles) > 0 THEN updatedFiles[Len(updatedFiles)].id ELSE UndefinedId

\* handleDeleteFile: the file that is active after the active file was deleted
DeleteActive(P, updatedFiles) ==
  IF Len(updatedFiles) > 0 THEN updatedFiles[1].id ELSE UndefinedId

handleDeleteFile(P, fileId, t) ==
  LET keep(file) == file.id # fileId
      updatedFiles == Filter(P.files, keep)
      activeFile == IF P.activeFile = fileId
                      THEN DeleteActive(P, updatedFiles)
                      ELSE P.activeFile
  IN [P EXCEPT !.files = updatedFiles, !.activeFile = activeFile,
               !.lastModified = t]

\* the file of the project with this id (project.files.find)
FindFile(P, fileId) ==
  P.files[CHOOSE i \in 1..Len(P.files) : P.files[i].id = fileId
             /\ \A j \in 1..(i - 1) : P.files[j].id # fileId]

\* handleRenameFile: the name the file gets
FinalName(oldName, newName) ==
  LET oldExt == SplitPop(oldName)
      newExt == SplitPop(newName)
  IN IF oldExt # "" /\ oldExt # newExt
       THEN newName \o "." \o oldExt
       ELSE newName

\* handleRenameFile: the content of another file after the rename
RenamedContent(file, oldFile, finalName) ==
  IF file.type = "html"
    THEN LET c1 == IF oldFile.type = "js"
                     THEN ReplaceRefs(file.content, "src", oldFile.name, finalName)
                     ELSE file.content
         IN IF oldFile.type = "css"
              THEN ReplaceRefs(c1, "href", oldFile.name, finalName)
              ELSE c1
    ELSE file.content

handleRenameFile(P, fileId, newName, t) ==
  IF Trim(newName) = "" THEN P
  ELSE IF fileId \notin FileIds(P) THEN P
  ELSE LET oldFile == FindFile(P, fileId)
           finalName == FinalName(oldFile.name, newName)
           fileType == getFileTypeFromName(finalName)
           updatedFiles ==
             [i \in 1..Len(P.files) |->
                IF P.files[i].id = fileId
                  THEN [P.files[i] EXCEPT !.name = finalName, !.type = fileType]
                  ELSE [P.files[i] EXCEPT
                          !.content = RenamedContent(P.files[i], oldFile, finalName)]]
       IN [P EXCEPT !.files = updatedFiles, !.lastModified = t]

\* handleRenameProject
handleRenameProject(P, name, t) == [P EXCEPT !.name = name, !.lastModified = t]

(***************************************************************************)
(* Preview: components/editor-ui/Preview.tsx, updateIframe                 *)
(***************************************************************************)

\* F(e), with e evaluated once: JavaScript evaluates an argument and a
\* const once, before the body that uses it
Bind(e, F(_)) == CHOOSE r \in {F(x) : x \in {e}} : TRUE

\* the smallest of a non-empty set of positions
Leftmost(S) == CHOOSE i \in S : \A i2 \in S : i <= i2

\* s.indexOf(pat, from), 1-based; 0 when pat does not occur from there on
IndexOf(s, pat, from) ==
  Bind({i \in from..(Len(s) - Len(pat) + 1) :
          /\ CharAt(s, i) = CharAt(pat, 1)
          /\ SubSeq(s, i, i + Len(pat) - 1) = pat},
       LAMBDA hits : IF hits = {} THEN 0 ELSE Leftmost(hits))

\* s.startsWith(pat, i - 1)
StartsWithAt(s, i, pat) ==
  /\ i + Len(pat) - 1 <= Len(s)
  /\ CharAt(s, i) = CharAt(pat, 1)
  /\ SubSeq(s, i, i + Len(pat) - 1) = pat

\* s.includes(pat)
StringIncludes(s, pat) == IndexOf(s, pat, 1) # 0

NoMatch == <<0, 0>>

\* `<tag[^>]*attr=["']name["'][^>]*>` matched at position i: the position of
\* the closing > of the tag, 0 without a match.  [^>]* cannot pass a >, so the
\* attribute lies before the first > behind the tag name and the tag closes
\* at the first > behind the attribute.
TagEndAt(html, i, tag, attr, name) ==
  IF ~StartsWithAt(html, i, "<" \o tag) THEN 0
  ELSE Bind(IndexOf(html, ">", i + Len(tag) + 1),
         LAMBDA firstGt :
           Bind({IndexOf(html, ">", j + Len(attr) + Len(name) + 3) :
                   j \in {j2 \in (i + Len(tag) + 1)..
                                 (IF firstGt = 0 THEN Len(html) ELSE firstGt) :
                            RefMatchesAt(html, j2, attr, name)}} \ {0},
                LAMBDA ends : IF ends = {} THEN 0 ELSE Leftmost(ends)))

\* new RegExp(`<script[^>]*src=["']${name}["'][^>]*>.*?</script>`) matched at
\* position i: <<i, end>>, or NoMatch.  `.` does not match a line break.
ScriptMatchAt(html, i, name) ==
  Bind(TagEndAt(html, i, "script", "src", name),
    LAMBDA g :
      IF g = 0 THEN NoMatch
      ELSE Bind(IndexOf(html, "</script>", g + 1),
             LAMBDA e :
               IF e = 0 THEN NoMatch
               ELSE IF StringIncludes(SubSeq(html, g + 1, e - 1), "\n") THEN NoMatch
               ELSE <<i, e + 8>>))

\* new RegExp(`<link[^>]*href=["']${name}["'][^>]*>`) matched at position i
LinkMatchAt(html, i, name) ==
  Bind(TagEndAt(html, i, "link", "href", name),
    LAMBDA g : IF g = 0 THEN NoMatch ELSE <<i, g>>)

\* the match of the regular expression of this kind at position i
MatchAt(html, i, kind, name) ==
  IF kind = "script" THEN ScriptMatchAt(html, i, name)
                     ELSE LinkMatchAt(html, i, name)

\* the leftmost match of the regular expression from position `from` on
NextMatch(html, from, kind, name) ==
  Bind({MatchAt(html, i, kind, name) :
          i \in {i2 \in from..Len(html) :
                   StartsWithAt(html, i2, IF kind = "script" THEN "<script" ELSE "<link")}}
       \ {NoMatch},
    LAMBDA ms : IF ms = {} THEN NoMatch
                ELSE CHOOSE mt \in ms : \A m2 \in ms : mt[1] <= m2[1])

\* String.prototype.replace with a replacement string: the replacement
\* patterns of the string are expanded for each match: $$ is a $, $& the
\* match, $` the text before it, $' the text behind it; without capture
\* groups $1..$99 and a lone $ stay as they are
RECURSIVE GetSubstitution(_, _, _, _)
GetSubstitution(replacement, matched, before, after) ==
  Bind(IndexOf(replacement, "$", 1),
    LAMBDA k :
      IF k = 0 \/ k = Len(replacement) THEN replacement
      ELSE Bind(SubSeq(replacement, k + 2, Len(replacement)),
             LAMBDA rest :
               LET c == CharAt(replacement, k + 1)
                   head == SubSeq(replacement, 1, k - 1)
               IN CASE c = "$" -> head \o "$" \o GetSubstitution(rest, matched, before, after)
                    [] c = "&" -> head \o matched \o GetSubstitution(rest, matched, before, after)
                    [] c = "`" -> head \o before \o GetSubstitution(rest, matched, before, after)
                    [] c = "'" -> head \o after \o GetSubstitution(rest, matched, before, after)
                    [] OTHER -> head \o "$" \o c
                                \o GetSubstitution(rest, matched, before, after)))

\* htmlContent.replace(regex /g, replacement), from position `from` on
RECURSIVE ReplaceAllFrom(_, _, _, _, _)
ReplaceAllFrom(html, from, kind, name, replacement) ==
  Bind(NextMatch(html, from, kind, name),
    LAMBDA mt :
      IF mt = NoMatch THEN SubSeq(html, from, Len(html))
      ELSE SubSeq(html, from, mt[1] - 1)
           \o GetSubstitution(replacement, SubSeq(html, mt[1], mt[2]),
                              SubSeq(html, 1, mt[1] - 1),
                              SubSeq(html, mt[2] + 1, Len(html)))
           \o ReplaceAllFrom(html, mt[2] + 1, kind, name, replacement))

\* the body of project.files.forEach for one file (Preview.tsx:36..60)
InlineFile(html, file) ==
  Bind(IF file.type = "js" /\ file.name # "index.html"
         THEN ReplaceAllFrom(html, 1, "script", file.name,
                             "<script>" \o file.content \o "</script>")
         ELSE html,
    LAMBDA h1 :
      IF file.type = "css" /\ file.name # "index.html"
        THEN ReplaceAllFrom(h1, 1, "link", file.name,
                            "<style>" \o file.content \o "</style>")
        ELSE h1)

\* project.files.forEach(...) over files[i..]
RECURSIVE InlineFiles(_, _, _)
InlineFiles(html, files, i) ==
  IF i > Len(files) THEN html
  ELSE Bind(InlineFile(html, files[i]), LAMBDA h : InlineFiles(h, files, i + 1))

\* jsFiles.map(file => `<script>${file.content}</script>`).join('\n')
RECURSIVE JoinScripts(_, _)
JoinScripts(files, i) ==
  IF i > Len(files) THEN ""
  ELSE IF files[i].type # "js" THEN JoinScripts(files, i + 1)
  ELSE "<script>" \o files[i].content \o "</script>"
       \o (IF \E j \in (i + 1)..Len(files) : files[j].type = "js" THEN "\n" ELSE "")
       \o JoinScripts(files, i + 1)

P5Tag == "<script src=\"https://cdnjs.cloudflare.com/ajax/libs/p5.js/1.9.0/p5.min.js\"></script>"

\* (faulty variant) a fallback document that carries the time of the
\* project's last change
FallbackDocument_Stamped(P) ==
  "<!-- " \o ToString(P.lastModified) \o " -->" \o JoinScripts(P.files, 1)

\* the document made when the project has no index.html (Preview.tsx:61..83)
FallbackDocument(P) ==
  LET css == {i \in 1..Len(P.files) : P.files[i].type = "css"}
      cssContent == IF css = {} THEN ""
                    ELSE "<style>" \o P.files[Leftmost(css)].content \o "</style>"
  IN "\n        <!DOCTYPE html>\n        <html>\n        <head>\n"
     \o "          <meta charset=\"utf-8\">\n"
     \o "          <title>" \o P.name \o "</title>\n"
     \o "          " \o P5Tag \o "\n"
     \o "          " \o cssContent \o "\n"
     \o "        </head>\n        <body>\n"
     \o "          " \o JoinScripts(P.files, 1) \o "\n"
     \o "        </body>\n        </html>\n      "

\* const consoleInterceptor = `...` (the template literal, line by line)
consoleInterceptor ==
  "\n"
  \o "      <script>\n"
  \o "        (function() {\n"
  \o "          const originalConsole = {\n"
  \o "            log: console.log,\n"
  \o "            warn: console.warn,\n"
  \o "            error: console.error,\n"
  \o "            info: console.info\n"
  \o "          };\n"
  \o "\n"
  \o "          // Override console methods\n"
  \o "          console.log = function() {\n"
  \o "            const args = Array.from(arguments);\n"
  \o "            originalConsole.log.apply(console, args);\n"
  \o "            sendConsoleMessage('log', args);\n"
  \o "          };\n"
  \o "          \n"
  \o "          console.warn = function() {\n"
  \o "            const args = Array.from(arguments);\n"
  \o "            originalConsole.warn.apply(console, args);\n"
  \o "            sendConsoleMessage('warning', args);\n"
  \o "          };\n"
  \o "          \n"
  \o "          console.error = function() {\n"
  \o "            const args = Array.from(arguments);\n"
  \o "            originalConsole.error.apply(console, args);\n"
  \o "            sendConsoleMessage('error', args);\n"
  \o "          };\n"
  \o "          \n"
  \o "          console.info = function() {\n"
  \o "            const args = Array.from(arguments);\n"
  \o "            originalConsole.info.apply(console, args);\n"
  \o "            sendConsoleMessage('info', args);\n"
  \o "          };\n"
  \o "\n"
  \o "          // Send message to parent\n"
  \o "          function sendConsoleMessage(type, args) {\n"
  \o "            try {\n"
  \o "              const content = args.map(arg => {\n"
  \o "                if (typeof arg === 'object') {\n"
  \o "                  try {\n"
  \o "                    return JSON.stringify(arg);\n"
  \o "                  } catch (e) {\n"
  \o "                    return String(arg);\n"
  \o "                  }\n"
  \o "                }\n"
  \o "                return String(arg);\n"
  \o "              }).join(' ');\n"
  \o "              \n"
  \o "              window.parent.postMessage({\n"
  \o "                source: 'p5js-console',\n"
  \o "                type: type,\n"
  \o "                content: content,\n"
  \o "                timestamp: Date.now()\n"
  \o "              }, '*');\n"
  \o "            } catch (e) {\n"
  \o "              originalConsole.error('Error sending console message:', e);\n"
  \o "            }\n"
  \o "          }\n"
  \o "\n"
  \o "          // Capture global errors\n"
  \o "          window.addEventListener('error', function(event) {\n"
  \o "            sendConsoleMessage('error', [event.message + ' at ' + event.filename + ':' + event.lineno]);\n"
  \o "          });\n"
  \o "        })();\n"
  \o "      </script>\n"
  \o "    "

\* "Add p5.js library if not present" (Preview.tsx:154..163)
WithP5(html) ==
  IF ~StringIncludes(html, "p5.js") /\ ~StringIncludes(html, "p5.min.js")
    THEN Bind(IndexOf(html, "</head>", 1),
           LAMBDA headEndIndex :
             IF headEndIndex # 0
               THEN SubSeq(html, 1, headEndIndex - 1) \o P5Tag \o "\n"
                    \o SubSeq(html, headEndIndex, Len(html))
               ELSE html)
    ELSE html

\* "Insert console interceptor at the beginning of head" (Preview.tsx:165..172)
WithInterceptor(html) ==
  Bind(IndexOf(html, "<head>", 1),
    LAMBDA headTag :
      IF headTag # 0
        THEN SubSeq(html, 1, headTag + 5) \o consoleInterceptor
             \o SubSeq(html, headTag + 6, Len(html))
        ELSE html)

\* the number of "(" that are open at the end of s, -1 once a ")" closed none
RECURSIVE OpenGroups(_, _, _)
OpenGroups(s, i, open) ==
  IF open < 0 \/ i > Len(s) THEN open
  ELSE OpenGroups(s, i + 1,
                  IF CharAt(s, i) = "(" THEN open + 1
                  ELSE IF CharAt(s, i) = ")" THEN open - 1
                  ELSE open)

\* new RegExp(source) for a source that spells a file name between the
\* template's own text: the constructor throws a SyntaxError when the name
\* leaves a group unterminated or closes one that is not open
RegExpThrows(name) == OpenGroups(name, 1, 0) # 0

\* updateIframe ends with an exception: the forEach reaches a script or style
\* file for whose name new RegExp throws (Preview.tsx:38, 51)
UpdateThrows(P) ==
  /\ \E i \in 1..Len(P.files) : P.files[i].name = "index.html"
  /\ \E i \in 1..Len(P.files) :
       /\ P.files[i].type \in {"js", "css"}
       /\ P.files[i].name # "index.html"
       /\ RegExpThrows(P.files[i].name)

\* the document before the library and the interceptor are added
InlinedDocument(P) ==
  Bind({i \in 1..Len(P.files) : P.files[i].name = "index.html"},
    LAMBDA named :
      IF named # {}
        THEN Bind(P.files[Leftmost(named)].content,
               LAMBDA content : InlineFiles(content, P.files, 1))
        ELSE FallbackDocument(P))

\* updateIframe: the document the iframe is given for project P
SynthesizeDocument(P) ==
  Bind(InlinedDocument(P),
    LAMBDA html0 : Bind(WithP5(html0), LAMBDA html1 : WithInterceptor(html1)))

(***************************************************************************)
(* Session event listener: components/editor-ui/WebSocketListener.tsx      *)
(***************************************************************************)

\* reconnectionAttempts: 10 (WebSocketListener.tsx:61)
SessionReconnectionAttempts == 10

SockIds == 1..MaxSockets

NoSocket == [state |-> "none", attempts |-> 0, listeners |-> 0]

\* the socket of the mounted listener (newSocket of the running effect)
CurrentSocket == nSocks

\* a socket that can still be, or become, connected
Open(s) == socks[s].state \in {"connecting", "connected", "waiting"}

\* the callback props the project page passes to the listener:
\* <WebSocketListener onCodeUpdate={handleCodeUpdate} />  (page.tsx:358)
PassedCallbacks == {"onCodeUpdate"}

NoCallback == [cb |-> "none"]

\* newSocket.on(name, ...) : the callback of callbacksRef.current a relay
\* event is dispatched to, with its arguments
ListenerHandler(ev) ==
  CASE ev.name = "codeUpdate" ->
         \* if (data && data.code) callbacksRef.current.onCodeUpdate(data.code)
         IF ev.args # <<>> /\ "code" \in DOMAIN ev.args[1] /\ ev.args[1].code # ""
           THEN [cb |-> "onCodeUpdate", action |-> "code", data |-> ev.args]
           ELSE NoCallback
    [] ev.name = "startExecution" ->
         [cb |-> "onExecutionControl", action |-> "start", data |-> <<>>]
    [] ev.name = "stopExecution" ->
         [cb |-> "onExecutionControl", action |-> "stop", data |-> <<>>]
    [] ev.name = "toggleExecution" ->
         [cb |-> "onExecutionControl", action |-> "toggle", data |-> <<>>]
    [] ev.name = "clearConsole" ->
         [cb |-> "onConsoleControl", action |-> "clear", data |-> <<>>]
    [] ev.name = "addConsoleMessage" ->
         [cb |-> "onConsoleControl", action |-> "message", data |-> ev.args]
    [] ev.name = "setConsoleHeight" ->
         [cb |-> "onConsoleControl", action |-> "height", data |-> ev.args]
    [] ev.name = "selectFile" ->
         [cb |-> "onFileControl", action |-> "select", data |-> ev.args]
    [] ev.name = "closeTab" ->
         [cb |-> "onFileControl", action |-> "close", data |-> ev.args]
    [] ev.name = "createFile" ->
         [cb |-> "onFileControl", action |-> "create", data |-> ev.args]
    [] ev.name = "deleteFile" ->
         [cb |-> "onFileControl", action |-> "delete", data |-> ev.args]
    [] ev.name = "toggleSidebar" ->
         [cb |-> "onLayoutControl", action |-> "sidebar", data |-> <<>>]
    [] ev.name = "updateProjectName" ->
         [cb |-> "onLayoutControl", action |-> "projectName", data |-> ev.args]
    [] ev.name = "backToDashboard" ->
         [cb |-> "onNavigationControl", action |-> "dashboard", data |-> <<>>]
    [] OTHER ->
         \* pong, welcome, onAny: logged only
         NoCallback

\* callbacksRef.current.<cb>?.(...): the project after the call; `closure` is
\* the project the callbacks in callbacksRef.current close over
CallbackResult(call, closure) ==
  IF call.cb = "onCodeUpdate" /\ call.cb \in PassedCallbacks
    THEN handleCodeUpdate(closure, call.data[1].code, now)
    ELSE project

\* the record of an operation on the page state: the project it was made on
\* and its time (Date.now())
Op(kind, id, arg) ==
  [kind |-> kind, id |-> id, arg |-> arg, pre |-> rendered, at |-> now]

\* handleCodeUpdate reaches setProject: the callback is passed and the project
\* it closes over has an active file (`if (!project || !project.activeFile) return;`)
CodeUpdateApplied(call, closure) ==
  /\ call.cb = "onCodeUpdate"
  /\ call.cb \in PassedCallbacks
  /\ closure.activeFile # UndefinedId

\* a relay event arrives on the listener's socket and its handler runs.  The
\* update is rendered later (Render), the ref is refreshed after that
\* (UpdateCallbacksRef).
Dispatch(ev) ==
  /\ enableWsListener
  /\ socks[CurrentSocket].state = "connected"
  /\ socks[CurrentSocket].listeners > 0
  /\ route = "project"
  /\ lastDispatch' = [ev |-> ev,
                      closure |-> callbacksRef,
                      renderedAt |-> rendered,
                      pre |-> [project |-> project, isRunning |-> isRunning,
                               sidebarOpen |-> sidebarOpen,
                               consoleMessages |-> consoleMessages,
                               route |-> route,
                               consoleHeight |-> consoleHeight]]
  /\ project' = CallbackResult(ListenerHandler(ev), callbacksRef)
  /\ lastOp' = IF CodeUpdateApplied(ListenerHandler(ev), callbacksRef)
                 THEN Op("update", callbacksRef.activeFile, ev.args[1].code)
                 ELSE lastOp
  /\ UNCHANGED <<enableWsListener, socks, nSocks, heartbeatRef, wsConnected,
                 callbacksRef>>
  /\ UNCHANGED <<rendered, isRunning, sidebarOpen, consoleMessages, route, now,
                 consoleVars, loadVars>>

\* React commits the render of a pending project update: the handlers of
\* this render close over the project it rendered
Render ==
  /\ rendered # project
  /\ route = "project"
  /\ rendered' = project
  /\ lastDispatch' = None
  /\ UNCHANGED <<enableWsListener, socks, nSocks, heartbeatRef, wsConnected,
                 callbacksRef>>
  /\ UNCHANGED <<project, isRunning, sidebarOpen, consoleMessages, route, now, lastOp,
                 consoleVars, loadVars>>

\* useEffect(() => { callbacksRef.current = {...} }, [onCodeUpdate, ...])
UpdateCallbacksRef ==
  /\ enableWsListener
  /\ callbacksRef # rendered
  /\ callbacksRef' = rendered
  /\ lastDispatch' = None
  /\ UNCHANGED <<enableWsListener, socks, nSocks, heartbeatRef, wsConnected>>
  /\ UNCHANGED pageVars

\* newSocket.on(name, handler), once per event name in the connection effect
RegisteredHandlers(s) == 1

\* "Enable MCP": the listener mounts; its connection effect calls io(), which
\* creates a socket that starts to connect, and registers the handlers
MountListener ==
  /\ ~enableWsListener
  /\ route = "project"
  /\ nSocks < MaxSockets
  /\ enableWsListener' = TRUE
  /\ nSocks' = nSocks + 1
  /\ socks' = [socks EXCEPT ![nSocks + 1] =
                 [state |-> "connecting", attempts |-> 0,
                  listeners |-> RegisteredHandlers(nSocks + 1)]]
  /\ wsConnected' = FALSE
  /\ callbacksRef' = rendered
  /\ lastDispatch' = None
  /\ UNCHANGED heartbeatRef
  /\ UNCHANGED pageVars

\* the cleanup of the connection effect: the state it leaves newSocket in:
\* if (newSocket.connected) { removeAllListeners(); disconnect() }
\* else { removeAllListeners() }
CleanupState(s) ==
  IF socks[s].state = "connected" THEN "closed" ELSE socks[s].state

\* "Disable MCP": the listener unmounts and the effect's cleanup runs
UnmountListener ==
  /\ enableWsListener
  /\ enableWsListener' = FALSE
  /\ heartbeatRef' = 0
  /\ socks' = [socks EXCEPT ![CurrentSocket] =
                 [state |-> CleanupState(CurrentSocket),
                  attempts |-> socks[CurrentSocket].attempts,
                  listeners |-> 0]]
  /\ wsConnected' = FALSE
  /\ lastDispatch' = None
  /\ UNCHANGED <<nSocks, callbacksRef>>
  /\ UNCHANGED pageVars

\* socket s connects; with handlers: newSocket.on('connect', ...)
SocketOnConnect(s) ==
  /\ socks[s].state = "connecting"
  /\ socks' = [socks EXCEPT ![s].state = "connected", ![s].attempts = 0]
  /\ IF socks[s].listeners > 0
       THEN wsConnected' = TRUE /\ heartbeatRef' = s
       ELSE UNCHANGED <<wsConnected, heartbeatRef>>
  /\ lastDispatch' = None
  /\ UNCHANGED <<enableWsListener, nSocks, callbacksRef>>
  /\ UNCHANGED pageVars

\* a connection attempt of socket s fails; with handlers:
\* newSocket.on('connect_error', ...)
SocketOnConnectError(s) ==
  /\ socks[s].state = "connecting"
  /\ IF socks[s].attempts >= SessionReconnectionAttempts
       THEN socks' = [socks EXCEPT ![s].state = "closed", ![s].attempts = 0]
       ELSE socks' = [socks EXCEPT ![s].state = "waiting",
                                   ![s].attempts = socks[s].attempts + 1]
  /\ IF socks[s].listeners > 0
       THEN wsConnected' = FALSE
       ELSE UNCHANGED wsConnected
  /\ lastDispatch' = None
  /\ UNCHANGED <<enableWsListener, nSocks, heartbeatRef, callbacksRef>>
  /\ UNCHANGED pageVars

\* the reconnection delay of socket s elapses and it tries again
SocketReconnectTimer(s) ==
  /\ socks[s].state = "waiting"
  /\ socks' = [socks EXCEPT ![s].state = "connecting"]
  /\ lastDispatch' = None
  /\ UNCHANGED <<enableWsListener, nSocks, heartbeatRef, wsConnected, callbacksRef>>
  /\ UNCHANGED pageVars

\* socket s loses its connection and its manager starts to reconnect; with
\* handlers: newSocket.on('disconnect', ...)
SocketOnDisconnect(s) ==
  /\ socks[s].state = "connected"
  /\ socks' = [socks EXCEPT ![s].state = "waiting", ![s].attempts = 1]
  /\ IF socks[s].listeners > 0
       THEN wsConnected' = FALSE /\ heartbeatRef' = 0
       ELSE UNCHANGED <<wsConnected, heartbeatRef>>
  /\ lastDispatch' = None
  /\ UNCHANGED <<enableWsListener, nSocks, callbacksRef>>
  /\ UNCHANGED pageVars

SessionInit ==
  /\ enableWsListener = FALSE
  /\ socks = [s \in SockIds |-> NoSocket]
  /\ nSocks = 0
  /\ heartbeatRef = 0
  /\ wsConnected = FALSE
  /\ callbacksRef = DEFAULT_PROJECT
  /\ lastDispatch = None

(***************************************************************************)
(* The project page: app/project/[id]/page.tsx.  A handler of the page     *)
(* closes over the project of the committed render (`rendered`); an update *)
(* made in a user event is rendered, and the listener's callback ref is    *)
(* refreshed, before the event returns.                                    *)
(***************************************************************************)

\* the values the user types
Contents == {"", "a"}
AddNames == {"", "a.js", "b.html"}
RenameNames == {" ", "main", "s.css"}
ProjectNames == {"", "P"}
LogMessages == {[type |-> "info", message |-> "m"]}

\* the tabs the tab bar shows: Tabs.tsx, openFiles
OpenFiles(P) == {P.openTabs[i] : i \in 1..Len(P.openTabs)} \cap FileIds(P)


\* setProject(P2) in a user event, the next event following after elapsed
\* milliseconds
SetProjectAt(P2, op, elapsed) ==
  /\ route = "project"
  /\ now + elapsed <= MaxOps
  /\ now' = now + elapsed
  /\ project' = P2
  /\ rendered' = P2
  /\ lastOp' = op
  /\ callbacksRef' = IF enableWsListener THEN P2 ELSE callbacksRef
  /\ lastDispatch' = None
  /\ UNCHANGED <<enableWsListener, socks, nSocks, heartbeatRef, wsConnected>>
  /\ UNCHANGED <<isRunning, sidebarOpen, consoleMessages, route, consoleVars, loadVars>>

\* setProject(P2) in a user event, the next one a millisecond later
SetProject(P2, op) == SetProjectAt(P2, op, 1)

\* a click on a file of the explorer or on a tab
FileSelect(fileId) ==
  /\ fileId \in FileIds(rendered)
  /\ SetProject(handleFileSelect(rendered, fileId), Op("select", fileId, ""))

\* a click on the close button of a tab
CloseTab(fileId) ==
  /\ fileId \in OpenFiles(rendered)
  /\ SetProject(handleCloseTab(rendered, fileId, now), Op("close", fileId, ""))

\* the user edits the text of the active file
FileChange(content) ==
  /\ rendered.activeFile \in FileIds(rendered)
  /\ SetProject(handleFileChange(rendered, content, now), Op("edit", rendered.activeFile, content))

\* the user confirms the name of a new file
AddFileAt(newFileName, elapsed) ==
  SetProjectAt(handleAddFile(rendered, newFileName, now),
               Op("add", NewFileId(now), newFileName), elapsed)

AddFile(newFileName) == AddFileAt(newFileName, 1)

\* the user picks a file to upload and its text has been read
FileUploadAt(fileName, content, elapsed) ==
  SetProjectAt(handleFileUpload(rendered, fileName, content, now),
               Op("upload", NewFileId(now), fileName), elapsed)

FileUpload(fileName, content) == FileUploadAt(fileName, content, 1)

\* reader.onload of an upload, outside every user event: its setProject is
\* rendered later (Render), as the one of a relay event is
UploadLoads(fileName, content) ==
  /\ route = "project"
  /\ now < MaxOps
  /\ now' = now + 1
  /\ project' = handleFileUpload(rendered, fileName, content, now)
  /\ lastOp' = Op("upload", NewFileId(now), fileName)
  /\ lastDispatch' = None
  /\ UNCHANGED <<enableWsListener, socks, nSocks, heartbeatRef, wsConnected,
                 callbacksRef>>
  /\ UNCHANGED <<rendered, isRunning, sidebarOpen, consoleMessages, route,
                 consoleVars, loadVars>>

\* Delete in the menu of a file
DeleteFile(fileId) ==
  /\ fileId \in FileIds(rendered)
  /\ SetProject(handleDeleteFile(rendered, fileId, now), Op("delete", fileId, ""))

\* the user confirms the new name of a file
RenameFile(fileId, newName) ==
  /\ fileId \in FileIds(rendered)
  /\ SetProject(handleRenameFile(rendered, fileId, newName, now), Op("rename", fileId, newName))

\* the user types in the project name field
RenameProject(name) ==
  SetProject(handleRenameProject(rendered, name, now), Op("name", "", name))

\* a user event that does not touch the project
PageEvent ==
  /\ route = "project"
  /\ now < MaxOps
  /\ now' = now + 1
  /\ lastDispatch' = None
  /\ UNCHANGED <<enableWsListener, socks, nSocks, heartbeatRef, wsConnected,
                 callbacksRef>>
  /\ UNCHANGED <<project, rendered, route, consoleVars, loadVars>>

\* handleStart: setIsRunning(true); clearConsole()
handleStart ==
  /\ PageEvent
  /\ isRunning' = TRUE
  /\ consoleMessages' = <<>>
  /\ lastOp' = Op("start", "", IF isRunning THEN "running" ELSE "stopped")
  /\ UNCHANGED sidebarOpen

\* handleStop: setIsRunning(false)
handleStop ==
  /\ PageEvent
  /\ isRunning' = FALSE
  /\ lastOp' = Op("stop", "", "")
  /\ UNCHANGED <<consoleMessages, sidebarOpen>>

\* handleConsoleMessage: a message of the running sketch
handleConsoleMessage(message) ==
  /\ PageEvent
  /\ isRunning
  /\ consoleMessages' = consoleMessages \o <<message>>
  /\ lastOp' = Op("message", "", "")
  /\ UNCHANGED <<isRunning, sidebarOpen>>

\* onClick={() => setSidebarOpen(!sidebarOpen)}
ToggleSidebar ==
  /\ PageEvent
  /\ sidebarOpen' = ~sidebarOpen
  /\ lastOp' = Op("sidebar", "", "")
  /\ UNCHANGED <<isRunning, consoleMessages>>

Max(a, b) == IF a >= b THEN a ELSE b

Min(a, b) == IF a <= b THEN a ELSE b

\* the vertical mouse movements of a drag, startY - e.clientY
DeltaYs == {-500, -120, 120, 500}

\* a mouse event on the resize handle of the console
ResizeEvent ==
  /\ route = "project"
  /\ lastDispatch' = None
  /\ UNCHANGED <<enableWsListener, socks, nSocks, heartbeatRef, wsConnected,
                 callbacksRef>>
  /\ UNCHANGED <<project, rendered, isRunning, sidebarOpen, consoleMessages,
                 route, now, lastOp, loadVars>>

\* onMouseDown of the resize handle: const startHeight = consoleHeight
ResizeMouseDown ==
  /\ ResizeEvent
  /\ startHeight = <<>>
  /\ startHeight' = <<consoleHeight>>
  /\ UNCHANGED consoleHeight

\* handleMouseMove: setConsoleHeight(Math.max(50, Math.min(500, startHeight + deltaY)))
ResizeMouseMove(deltaY) ==
  /\ ResizeEvent
  /\ startHeight # <<>>
  /\ consoleHeight' = Max(50, Min(500, startHeight[1] + deltaY))
  /\ UNCHANGED startHeight

\* handleMouseUp: the listeners of the drag are removed
ResizeMouseUp ==
  /\ ResizeEvent
  /\ startHeight # <<>>
  /\ startHeight' = <<>>
  /\ UNCHANGED consoleHeight

PageInit ==
  /\ project = DEFAULT_PROJECT
  /\ rendered = DEFAULT_PROJECT
  /\ isRunning = TRUE
  /\ sidebarOpen = TRUE
  /\ consoleMessages = <<>>
  /\ route = "project"
  /\ now = 0
  /\ lastOp = None
  /\ consoleHeight = 200
  /\ startHeight = <<>>

(***************************************************************************)
(* The preview in the page: useEffect(() => updateIframe(), [project])     *)
(***************************************************************************)

\* the effect of a render with a new project: updateIframe()
UpdateIframe ==
  /\ route = "project"
  /\ previewOf # rendered
  /\ previewOf' = rendered
  /\ updateThrew' = UpdateThrows(rendered)
  /\ IF UpdateThrows(rendered)
       THEN \* the exception leaves the effect: React unmounts the page
            /\ route' = "error"
            /\ UNCHANGED <<htmlContent, nLoads>>
       ELSE /\ htmlContent' = SynthesizeDocument(rendered)
            /\ nLoads' = nLoads + 1
            /\ UNCHANGED route
  /\ lastDispatch' = None
  /\ UNCHANGED <<enableWsListener, socks, nSocks, heartbeatRef, wsConnected,
                 callbacksRef>>
  /\ UNCHANGED <<project, rendered, isRunning, sidebarOpen, consoleMessages, now,
                 lastOp, consoleVars, loadVars>>

\* before the first effect has run the iframe has no document
PreviewInit ==
  /\ htmlContent = ""
  /\ previewOf = None
  /\ nLoads = 0
  /\ updateThrew = FALSE


\* Math.random().toString(36).substring(2, 9): up to seven base-36 digits,
\* fewer when the fraction is short ("0.i" gives "i")
RandomSuffixes == {"k3f9x2a", "i"}

\* what the shim intercepts: the four console methods and the window's
\* 'error' event
ShimCalls == {"log", "warn", "error", "info", "uncaught"}

\* a shim that reports each method under the method's own name
ShimType_MethodName(call) == IF call = "uncaught" THEN "error" ELSE call

\* the type the shim gives to sendConsoleMessage for each of them
ShimType(call) ==
  CASE call = "log" -> "log"
    [] call = "warn" -> "warning"
    [] call = "error" -> "error"
    [] call = "info" -> "info"
    [] call = "uncaught" -> "error"

\* sendConsoleMessage(type, args): the window message posted to the parent
sendConsoleMessage(call, content, t) ==
  [source |-> "p5js-console", type |-> ShimType(call), content |-> content,
   timestamp |-> t]

\* the milliseconds between one window message and the next
ElapsedMillis == {0, 1}

\* `console-${Date.now()}-${Math.random().toString(36).substring(2, 9)}`
ConsoleId(t, r) == "console-" \o ToString(t) \o "-" \o r

\* handleMessage: a window message of the console shim arrives; the entry
\* gets its id and goes to onConsoleMessage = handleConsoleMessage, which
\* appends it (setConsoleMessages(prev => [...prev, message]))
handleMessage(data, r, elapsed) ==
  /\ route = "project"
  /\ Len(consoleMessages) < MaxOps
  /\ now + elapsed <= MaxOps
  /\ consoleMessages' =
       consoleMessages \o <<[id |-> ConsoleId(now, r), type |-> data.type,
                             content |-> data.content, timestamp |-> data.timestamp]>>
  /\ now' = now + elapsed
  /\ lastOp' = Op("message", ConsoleId(now, r), data.content)
  /\ lastDispatch' = None
  /\ UNCHANGED <<enableWsListener, socks, nSocks, heartbeatRef, wsConnected,
                 callbacksRef>>
  /\ UNCHANGED <<project, rendered, isRunning, sidebarOpen, route, consoleVars, loadVars>>
  /\ UNCHANGED previewVars

(***************************************************************************)
(* Persisted data: the loads from localStorage of the editor page          *)
(* (app/page.tsx), of the project page (app/project/[id]/page.tsx) and of  *)
(* ProjectManager.  A stored item is missing, a text that is not JSON, or  *)
(* the text of a JSON value.  The project page's auto-save and every other *)
(* writer are covered by StorageWrite, which stores any item.              *)
(***************************************************************************)

StorageKeys == {"current_project", "p5_projects"}

\* the route parameter of the project page
projectId == "p1"

\* localStorage.getItem returns null
Missing == [kind |-> "missing"]

\* a stored text JSON.parse throws a SyntaxError on
Unparsable == [kind |-> "text"]

\* a stored text JSON.parse returns the value v for
Json(v) == [kind |-> "json", value |-> v]

JsonNull == [type |-> "null"]

JsonNumber == [type |-> "number"]

JsonProject(id, P) == [type |-> "project", id |-> id, project |-> P]

JsonArray(items) == [type |-> "array", items |-> items]

\* the items the bounded runs store
StoredItems ==
  {Missing, Unparsable, Json(JsonNull), Json(JsonNumber),
   Json(JsonProject(projectId, DEFAULT_PROJECT)),
   Json(JsonArray(<<>>)),
   Json(JsonArray(<<JsonProject(projectId, DEFAULT_PROJECT)>>))}

\* if (savedProject): getItem returned a non-empty string
Truthy_Item(item) == item # Missing

\* JSON.parse(text) throws
ParseThrows(item) == item.kind = "text"

\* rendering a page whose project state is v throws a TypeError:
\* project.activeFile, project.files.find (app/page.tsx:149-150)
RenderThrows(v) == v.type # "project"

\* the load effect of the editor page: <<outcome, project state afterwards>>
HomeLoadEffect(item) ==
  IF ~Truthy_Item(item) THEN <<"default", JsonProject("default", DEFAULT_PROJECT)>>
  ELSE IF ParseThrows(item)
    THEN \* catch (error) { console.error(...) }
         <<"default", JsonProject("default", DEFAULT_PROJECT)>>
  ELSE \* setProject(parsed), then the page renders with it
       IF RenderThrows(item.value)
         THEN <<"uncaught", item.value>>
         ELSE <<"loaded", item.value>>

\* the load effect of ProjectManager: JSON.parse outside any try
ManagerLoadEffect(item) ==
  IF ~Truthy_Item(item) THEN <<"default", JsonArray(<<>>)>>
  ELSE IF ParseThrows(item) THEN <<"uncaught", JsonArray(<<>>)>>
  ELSE <<"loaded", item.value>>

\* projects.find((p) => p.id === projectId) throws a TypeError
FindThrows(v) ==
  \/ v.type # "array"
  \/ \E i \in 1..Len(v.items) :
       /\ v.items[i].type = "null"
       /\ \A j \in 1..(i - 1) : v.items[j].type # "project" \/ v.items[j].id # projectId

\* the element projects.find returns, the set being empty for undefined
Found(v) ==
  {i \in 1..Len(v.items) :
     /\ v.items[i].type = "project" /\ v.items[i].id = projectId
     /\ \A j \in 1..(i - 1) : v.items[j].type # "project" \/ v.items[j].id # projectId}

\* loadProject, the part that reads current_project
LoadCurrentProject(item) ==
  IF ~Truthy_Item(item) THEN <<"redirect", JsonNull>>
  ELSE IF ParseThrows(item) THEN <<"redirect", JsonNull>>
  ELSE IF item.value.type = "null"
    THEN \* parsed.id of null: TypeError, caught
         <<"redirect", JsonNull>>
  ELSE IF item.value.type = "project" /\ item.value.id = projectId
    THEN <<"loaded", item.value>>
  ELSE <<"redirect", JsonNull>>

\* loadProject of the project page: every exception is caught and answered
\* with router.push('/')
ProjectLoadEffect(saved, current) ==
  IF Truthy_Item(saved)
    THEN IF ParseThrows(saved) THEN <<"redirect", JsonNull>>
         ELSE IF FindThrows(saved.value) THEN <<"redirect", JsonNull>>
         ELSE IF Found(saved.value) # {}
           THEN <<"loaded", saved.value.items[CHOOSE i \in Found(saved.value) : TRUE]>>
           ELSE LoadCurrentProject(current)
    ELSE LoadCurrentProject(current)

LoadResult(path, effect) ==
  [path |-> path, stored |-> storage, outcome |-> effect[1], state |-> effect[2]]

\* a load or a write of persisted data leaves the rest of the page alone
StorageEvent ==
  /\ lastDispatch' = None
  /\ UNCHANGED <<enableWsListener, socks, nSocks, heartbeatRef, wsConnected,
                 callbacksRef>>
  /\ UNCHANGED <<project, rendered, isRunning, sidebarOpen, consoleMessages,
                 route, now, lastOp, consoleVars, managerVars>>

\* something stores an item under a key
StorageWrite(key, item) ==
  /\ StorageEvent
  /\ storage[key] # item
  /\ storage' = [storage EXCEPT ![key] = item]
  /\ loadResult' = None

\* the editor page mounts and its load effect runs (app/page.tsx:24-37)
HomeLoad ==
  /\ StorageEvent
  /\ loadResult' = LoadResult("home", HomeLoadEffect(storage["current_project"]))
  /\ UNCHANGED storage

\* ProjectManager mounts and its load effect runs (ProjectManager.tsx:15-20)
ManagerLoad ==
  /\ StorageEvent
  /\ loadResult' = LoadResult("manager", ManagerLoadEffect(storage["p5_projects"]))
  /\ UNCHANGED storage

\* the project page mounts and loadProject runs (page.tsx:31-72); a project
\* found among the saved projects is written back as the current project
ProjectLoad ==
  /\ StorageEvent
  /\ LET effect == ProjectLoadEffect(storage["p5_projects"], storage["current_project"])
     IN /\ loadResult' = LoadResult("project", effect)
        /\ IF /\ effect[1] = "loaded"
              /\ Truthy_Item(storage["p5_projects"])
              /\ ~ParseThrows(storage["p5_projects"])
              /\ ~FindThrows(storage["p5_projects"].value)
              /\ Found(storage["p5_projects"].value) # {}
             THEN storage' = [storage EXCEPT !["current_project"] = Json(effect[2])]
             ELSE UNCHANGED storage

LoadInit ==
  /\ storage = [k \in StorageKeys |-> Missing]
  /\ loadResult = None
  /\ projects = <<>>
  /\ autoSaved = None

(***************************************************************************)
(* Persistence: the auto-save effect of the project page                   *)
(* (app/project/[id]/page.tsx:75-93) and ProjectManager, whose projects    *)
(* state is its own copy of the saved collection.  The in-memory project   *)
(* of the project page has the id of the route, projectId.                 *)
(***************************************************************************)

\* JSON.stringify(project) of the page's project
Stored(P) == JsonProject(projectId, P)

\* projects.findIndex(p => p.id === id): 0 for -1
FindIndex(items, id) ==
  IF \E i \in 1..Len(items) : items[i].id = id
    THEN CHOOSE i \in 1..Len(items) :
           items[i].id = id /\ \A k \in 1..(i - 1) : items[k].id # id
    ELSE 0

\* the auto-save effect, the part that updates the saved collection
AutoSaveCollection(item, P) ==
  IF ~Truthy_Item(item) \/ ParseThrows(item) THEN item
  ELSE IF item.value.type # "array" THEN item
  ELSE LET index == FindIndex(item.value.items, projectId)
       IN IF index = 0 THEN item
          ELSE Json(JsonArray([item.value.items EXCEPT ![index] = Stored(P)]))

\* a step of the persistence leaves the session and the rest of the page alone
PersistEvent ==
  /\ lastDispatch' = None
  /\ UNCHANGED <<enableWsListener, socks, nSocks, heartbeatRef, wsConnected>>
  /\ UNCHANGED <<isRunning, sidebarOpen, consoleMessages, consoleVars, loadResult>>

\* useEffect(() => { localStorage.setItem('current_project', ...); ... }, [project])
AutoSaveEffect ==
  /\ route = "project"
  /\ autoSaved # rendered
  /\ autoSaved' = rendered
  /\ storage' = [storage EXCEPT
                   !["current_project"] = Json(Stored(rendered)),
                   !["p5_projects"] = AutoSaveCollection(storage["p5_projects"], rendered)]
  /\ PersistEvent
  /\ UNCHANGED <<project, rendered, route, now, lastOp, callbacksRef, projects>>

\* ProjectManager mounts.  Its load effect reads the saved collection into
\* projects; its save effect writes projects back, first the empty array of
\* the first render, then what was loaded.
ManagerMount ==
  /\ route = "project"
  /\ projects = <<>>
  /\ ~ParseThrows(storage["p5_projects"])
  /\ Truthy_Item(storage["p5_projects"]) => storage["p5_projects"].value.type = "array"
  /\ projects' = <<IF Truthy_Item(storage["p5_projects"])
                     THEN storage["p5_projects"].value.items ELSE <<>> >>
  /\ storage' = [storage EXCEPT !["p5_projects"] = Json(JsonArray(projects'[1]))]
  /\ PersistEvent
  /\ UNCHANGED <<project, rendered, route, now, lastOp, callbacksRef, autoSaved>>

\* handleSaveProject: the projects array with the current project put in
SavedProjects(updatedProject) ==
  LET existingIndex == FindIndex(projects[1], projectId)
  IN IF existingIndex > 0
       THEN [projects[1] EXCEPT ![existingIndex] = Stored(updatedProject)]
       ELSE projects[1] \o <<Stored(updatedProject)>>

\* the Save button: handleSaveProject, then the save effect of ProjectManager.
\* notify: the handler also calls onProjectChange(updatedProject)
\* (part_006:47-49; components/editor-ui/ProjectManager.tsx does not)
ManagerSave(notify) ==
  /\ route = "project"
  /\ projects # <<>>
  /\ now < MaxOps
  /\ now' = now + 1
  /\ LET updatedProject == [rendered EXCEPT !.lastModified = now]
     IN /\ projects' = <<SavedProjects(updatedProject)>>
        /\ storage' = [storage EXCEPT !["p5_projects"] = Json(JsonArray(projects'[1]))]
        /\ IF notify
             THEN /\ project' = updatedProject
                  /\ rendered' = updatedProject
                  /\ callbacksRef' = IF enableWsListener THEN updatedProject ELSE callbacksRef
             ELSE UNCHANGED <<project, rendered, callbacksRef>>
  /\ lastOp' = Op("save", "", IF notify THEN "notify" ELSE "")
  /\ PersistEvent
  /\ UNCHANGED <<route, autoSaved>>

\* `project-${Date.now()}`
NewProjectId(t) == "project-" \o ToString(t)

\* handleNewProject of part_006: the new project is appended to projects,
\* the save effect writes them, and router.push leaves for the new project
ManagerNew ==
  /\ route = "project"
  /\ projects # <<>>
  /\ now < MaxOps
  /\ now' = now + 1
  /\ LET newProject ==
           JsonProject(NewProjectId(now),
                       [DEFAULT_PROJECT EXCEPT
                          !.name = "Untitled Project " \o ToString(Len(projects[1]) + 1),
                          !.lastModified = now])
     IN /\ projects' = <<projects[1] \o <<newProject>> >>
        /\ storage' = [storage EXCEPT !["p5_projects"] = Json(JsonArray(projects'[1]))]
  /\ route' = "new project"
  /\ lastOp' = Op("new", NewProjectId(now), "")
  /\ PersistEvent
  /\ UNCHANGED <<project, rendered, callbacksRef, autoSaved>>

\* the items of the saved collection when the project page has loaded
SavedCollections ==
  {Missing, Json(JsonArray(<<>>)), Json(JsonArray(<<Stored(DEFAULT_PROJECT)>>))}

\* the project page has loaded its project from the persisted data
PersistInit ==
  /\ storage \in [StorageKeys -> SavedCollections \cup {Json(Stored(DEFAULT_PROJECT))}]
  /\ storage["current_project"] = Json(Stored(DEFAULT_PROJECT))
  /\ storage["p5_projects"] \in SavedCollections
  /\ loadResult = None
  /\ projects = <<>>
  /\ autoSaved = DEFAULT_PROJECT
(***************************************************************************)
(* Specifications                                                          *)
(***************************************************************************)

Init ==
  RelayInit /\ AdapterInit /\ SessionInit /\ PageInit /\ PreviewInit /\ LoadInit

browserVars == <<sessionVars, pageVars, previewVars>>

\* what a step of the session or the page leaves alone
serverVars == <<relayVars, adapterVars, previewVars>>

\* ---- Spec: the relay and its peers
PeerConnects == \E p \in Peers : OnConnection(p) /\ UNCHANGED <<adapterVars, browserVars>>

PeerDisconnects == \E p \in Peers : OnDisconnect(p) /\ UNCHANGED <<adapterVars, browserVars>>

PeerEmits ==
  \E p \in Peers, ev \in PeerEvents :
    OnEvent(p, ev) /\ UNCHANGED <<adapterVars, browserVars>>

PeerReceives == \E q \in Peers : TakeFromInbox(q) /\ UNCHANGED <<adapterVars, browserVars>>

Next == PeerConnects \/ PeerDisconnects \/ PeerEmits \/ PeerReceives

Spec == Init /\ [][Next]_vars

\* ---- SpecAdapter: the controller adapter; what it emits goes to its relay
AdapterStarts == ConnectToEditor /\ UNCHANGED <<relayVars, browserVars>>

AdapterConnects == EditorOnConnect /\ UNCHANGED <<relayVars, browserVars>>

AdapterConnectError == EditorOnConnectError /\ UNCHANGED <<relayVars, browserVars>>

AdapterReconnects == EditorReconnectTimer /\ UNCHANGED <<relayVars, browserVars>>

AdapterDisconnects == EditorOnDisconnect /\ UNCHANGED <<relayVars, browserVars>>

AdapterTool ==
  \E call \in ToolCalls, t \in Timestamps :
    Tool(call, t) /\ UNCHANGED <<relayVars, browserVars>>

AdapterSends == EditorSocketSend /\ UNCHANGED <<relayVars, browserVars>>

NextAdapter ==
  \/ AdapterStarts \/ AdapterConnects \/ AdapterConnectError
  \/ AdapterReconnects \/ AdapterDisconnects \/ AdapterTool \/ AdapterSends

SpecAdapter == Init /\ [][NextAdapter]_vars

\* ---- SpecSession: the session listener in the project page
SessionEnable == MountListener /\ UNCHANGED serverVars

SessionDisable == UnmountListener /\ UNCHANGED serverVars

SessionConnects ==
  \E s \in SockIds : SocketOnConnect(s) /\ UNCHANGED serverVars

SessionConnectError ==
  \E s \in SockIds : SocketOnConnectError(s) /\ UNCHANGED serverVars

SessionReconnects ==
  \E s \in SockIds : SocketReconnectTimer(s) /\ UNCHANGED serverVars

SessionDisconnects ==
  \E s \in SockIds : SocketOnDisconnect(s) /\ UNCHANGED serverVars

\* the events the relay delivers to the session
SessionEvents ==
  {Ev("codeUpdate", <<[code |-> c]>>) : c \in {"a", "b"}}
  \cup {Ev("stopExecution", <<>>)}

SessionReceives ==
  \E ev \in SessionEvents : Dispatch(ev) /\ UNCHANGED serverVars

SessionRenders == Render /\ UNCHANGED serverVars

SessionRefEffect == UpdateCallbacksRef /\ UNCHANGED serverVars

SessionUserEdits ==
  \E c \in Contents : FileChange(c) /\ UNCHANGED serverVars

NextSession ==
  \/ SessionEnable \/ SessionDisable \/ SessionConnects \/ SessionConnectError
  \/ SessionReconnects \/ SessionDisconnects \/ SessionReceives
  \/ SessionRenders \/ SessionRefEffect \/ SessionUserEdits

SpecSession == Init /\ [][NextSession]_vars

\* ---- SpecProject: the user's operations on the project
UserSelects ==
  \E id \in FileIds(rendered) : FileSelect(id) /\ UNCHANGED serverVars

UserCloses ==
  \E id \in FileIds(rendered) : CloseTab(id) /\ UNCHANGED serverVars

UserEdits ==
  \E c \in Contents : FileChange(c) /\ UNCHANGED serverVars

UserAdds ==
  \E n \in AddNames : AddFile(n) /\ UNCHANGED serverVars

UserDeletes ==
  \E id \in FileIds(rendered) : DeleteFile(id) /\ UNCHANGED serverVars

UserRenames ==
  \E id \in FileIds(rendered), n \in RenameNames :
    RenameFile(id, n) /\ UNCHANGED serverVars

UserRenamesProject ==
  \E n \in ProjectNames : RenameProject(n) /\ UNCHANGED serverVars

NextProject ==
  \/ UserSelects \/ UserCloses \/ UserEdits \/ UserAdds \/ UserDeletes
  \/ UserRenames \/ UserRenamesProject

SpecProject == Init /\ [][NextProject]_vars

\* ---- SpecFiles: file add, delete and rename from the default project
FilesAdd ==
  \E n \in AddNames : AddFile(n) /\ UNCHANGED serverVars

FilesDelete ==
  \E id \in FileIds(rendered) : DeleteFile(id) /\ UNCHANGED serverVars

FilesRename ==
  \E id \in FileIds(rendered), n \in RenameNames :
    RenameFile(id, n) /\ UNCHANGED serverVars

NextFiles == FilesAdd \/ FilesDelete \/ FilesRename

SpecFiles == Init /\ [][NextFiles]_vars

\* ---- SpecBridge: adapter -> relay -> session listener -> page
BridgeAdapterStarts == ConnectToEditor /\ UNCHANGED <<relayVars, browserVars>>

BridgeAdapterConnects ==
  EditorOnConnect /\ OnConnection("mcp") /\ UNCHANGED browserVars

BridgeSessionEnable == MountListener /\ UNCHANGED serverVars

BridgeSessionConnects ==
  enableWsListener /\ SocketOnConnect(CurrentSocket) /\ OnConnection("web") /\ UNCHANGED <<adapterVars, previewVars>>

BridgeTool ==
  \E call \in ToolCalls, t \in Timestamps :
    Tool(call, t) /\ UNCHANGED <<relayVars, browserVars>>

BridgeRelay ==
  /\ adapterOut # <<>>
  /\ EditorSocketSend
  /\ OnEvent("mcp", Head(adapterOut))
  /\ UNCHANGED browserVars

BridgeDispatch ==
  /\ inbox["web"] # <<>>
  /\ Dispatch(Head(inbox["web"]))
  /\ TakeFromInbox("web")
  /\ UNCHANGED <<adapterVars, previewVars>>

BridgeRenders == Render /\ UNCHANGED serverVars

BridgeRefEffect == UpdateCallbacksRef /\ UNCHANGED serverVars

BridgeUserStops == handleStop /\ UNCHANGED serverVars

BridgeUserStarts == handleStart /\ UNCHANGED serverVars

BridgeConsoleMessage ==
  \E m \in LogMessages : handleConsoleMessage(m) /\ UNCHANGED serverVars

BridgeToggleSidebar == ToggleSidebar /\ UNCHANGED serverVars

NextBridge ==
  \/ BridgeAdapterStarts \/ BridgeAdapterConnects \/ BridgeSessionEnable
  \/ BridgeSessionConnects \/ BridgeTool \/ BridgeRelay \/ BridgeDispatch
  \/ BridgeRenders \/ BridgeRefEffect \/ BridgeUserStops \/ BridgeUserStarts
  \/ BridgeConsoleMessage \/ BridgeToggleSidebar

SpecBridge == Init /\ [][NextBridge]_vars

\* ---- SpecPreview: the preview of the project the user works on
PreviewContents ==
  {"", "x$$y", "print('$&')", "// p5.js sketch",
   "<html><head lang=\"en\"><script src=\"sketch.js\"></script></head><body></body></html>"}

PreviewSelects == \E id \in FileIds(rendered) : FileSelect(id) /\ UNCHANGED serverVars

PreviewEdits == \E c \in PreviewContents : FileChange(c) /\ UNCHANGED serverVars

PreviewDeletes == \E id \in FileIds(rendered) : DeleteFile(id) /\ UNCHANGED serverVars

PreviewRenames ==
  \E id \in FileIds(rendered), n \in RenameNames :
    RenameFile(id, n) /\ UNCHANGED serverVars

PreviewUpdates == UpdateIframe /\ UNCHANGED <<relayVars, adapterVars>>

NextPreview ==
  \/ PreviewSelects \/ PreviewEdits \/ PreviewDeletes \/ PreviewRenames
  \/ PreviewUpdates

SpecPreview == Init /\ [][NextPreview]_vars


\* ---- SpecRename: renames in a project whose files the user edits
RenameContents ==
  {"", "<script src=\"sketch_js\"></script>", "<script src='sketch.js'></script>"}

RenameSelects == \E id \in FileIds(rendered) : FileSelect(id) /\ UNCHANGED serverVars

RenameEdits == \E c \in RenameContents : FileChange(c) /\ UNCHANGED serverVars

RenameRenames ==
  \E id \in FileIds(rendered), n \in RenameNames :
    RenameFile(id, n) /\ UNCHANGED serverVars

NextRename == RenameSelects \/ RenameEdits \/ RenameRenames

SpecRename == Init /\ [][NextRename]_vars

\* ---- SpecConsole: the height of the console panel
ConsoleHeights == {10, 300, 600}

ConsoleEnable == MountListener /\ UNCHANGED serverVars

ConsoleConnects ==
  \E s \in SockIds : SocketOnConnect(s) /\ UNCHANGED serverVars

ConsoleReceives ==
  \E h \in ConsoleHeights :
    Dispatch(Ev("setConsoleHeight", <<h>>)) /\ UNCHANGED serverVars

ConsoleMouseDown == ResizeMouseDown /\ UNCHANGED serverVars

ConsoleMouseMove == \E d \in DeltaYs : ResizeMouseMove(d) /\ UNCHANGED serverVars

ConsoleMouseUp == ResizeMouseUp /\ UNCHANGED serverVars

NextConsole ==
  \/ ConsoleEnable \/ ConsoleConnects \/ ConsoleReceives
  \/ ConsoleMouseDown \/ ConsoleMouseMove \/ ConsoleMouseUp

SpecConsole == Init /\ [][NextConsole]_vars

\* ---- SpecRun: start, stop and edits, with the preview's project effect.
\* React runs the pending effect before it handles the next user event.
EffectsFlushed == previewOf = rendered

RunStops == EffectsFlushed /\ handleStop /\ UNCHANGED serverVars

RunStarts == EffectsFlushed /\ handleStart /\ UNCHANGED serverVars

RunEdits ==
  /\ EffectsFlushed
  /\ \E c \in Contents : FileChange(c) /\ UNCHANGED serverVars

RunSelects ==
  /\ EffectsFlushed
  /\ \E id \in FileIds(rendered) : FileSelect(id) /\ UNCHANGED serverVars

RunMessage ==
  /\ EffectsFlushed
  /\ \E m \in LogMessages : handleConsoleMessage(m) /\ UNCHANGED serverVars

RunUpdates == UpdateIframe /\ UNCHANGED <<relayVars, adapterVars>>

NextRun ==
  RunStops \/ RunStarts \/ RunEdits \/ RunSelects \/ RunMessage \/ RunUpdates

SpecRun == Init /\ [][NextRun]_vars

\* the pending effect of a render is always run
SpecRunFair == SpecRun /\ WF_vars(RunUpdates)

\* ---- SpecFallback: the preview of a project that loses its index.html
FallbackNames == {"b.css", "c.js"}

FallbackContents == {"let a;", "let b;"}

FallbackAdds == \E n \in FallbackNames : AddFile(n) /\ UNCHANGED serverVars

FallbackDeletes == \E id \in FileIds(rendered) : DeleteFile(id) /\ UNCHANGED serverVars

FallbackEdits == \E c \in FallbackContents : FileChange(c) /\ UNCHANGED serverVars

FallbackUpdates == UpdateIframe /\ UNCHANGED <<relayVars, adapterVars>>

NextFallback == FallbackAdds \/ FallbackDeletes \/ FallbackEdits \/ FallbackUpdates

SpecFallback == Init /\ [][NextFallback]_vars

\* ---- SpecNames: the preview of a project with files of any name
FileNames == {"a(.js", "c.js", "d).css"}

NamesAdds == \E n \in FileNames : AddFile(n) /\ UNCHANGED serverVars

NamesDeletes == \E id \in FileIds(rendered) : DeleteFile(id) /\ UNCHANGED serverVars

NamesSelects == \E id \in FileIds(rendered) : FileSelect(id) /\ UNCHANGED serverVars

NamesUpdates == UpdateIframe /\ UNCHANGED <<relayVars, adapterVars>>

NextNames == NamesAdds \/ NamesDeletes \/ NamesSelects \/ NamesUpdates

SpecNames == Init /\ [][NextNames]_vars

\* ---- SpecLoad: the loads of persisted data
LoadWrites ==
  \E k \in StorageKeys, item \in StoredItems :
    StorageWrite(k, item) /\ UNCHANGED serverVars

LoadHome == HomeLoad /\ UNCHANGED serverVars

LoadManager == ManagerLoad /\ UNCHANGED serverVars

LoadProject == ProjectLoad /\ UNCHANGED serverVars

NextLoad == LoadWrites \/ LoadHome \/ LoadManager \/ LoadProject

SpecLoad == Init /\ [][NextLoad]_vars

\* ---- SpecValidate: the names the user types for new and for renamed files
TypedNames == {"", " ", "a.js", "sketch.js"}

ValidateAdds == \E n \in TypedNames : AddFile(n) /\ UNCHANGED serverVars

ValidateRenames ==
  \E id \in FileIds(rendered), n \in TypedNames :
    RenameFile(id, n) /\ UNCHANGED serverVars

ValidateSelects ==
  \E id \in FileIds(rendered) : FileSelect(id) /\ UNCHANGED serverVars

NextValidate == ValidateAdds \/ ValidateRenames \/ ValidateSelects

SpecValidate == Init /\ [][NextValidate]_vars

\* ---- SpecEdit: the editor and the relay both write the active file
EditorContents == {"let e = 1;"}

RelayCodes == {"let r = 2;"}

EditEnable == MountListener /\ UNCHANGED serverVars

EditConnects ==
  \E s \in SockIds : SocketOnConnect(s) /\ UNCHANGED serverVars

EditReceives ==
  \E c \in RelayCodes :
    Dispatch(Ev("codeUpdate", <<[code |-> c]>>)) /\ UNCHANGED serverVars

EditRenders == Render /\ UNCHANGED serverVars

EditRefEffect == UpdateCallbacksRef /\ UNCHANGED serverVars

EditUserEdits ==
  \E c \in EditorContents : FileChange(c) /\ UNCHANGED serverVars

EditUserSelects ==
  \E id \in FileIds(rendered) : FileSelect(id) /\ UNCHANGED serverVars

EditUpdates == UpdateIframe /\ UNCHANGED <<relayVars, adapterVars>>

NextEdit ==
  \/ EditEnable \/ EditConnects \/ EditReceives \/ EditRenders
  \/ EditRefEffect \/ EditUserEdits \/ EditUserSelects \/ EditUpdates

SpecEdit == Init /\ [][NextEdit]_vars

\* ---- SpecIds: the entries of the console and their ids
ShimData ==
  {[source |-> "p5js-console", type |-> "log", content |-> "m", timestamp |-> 0]}

IdsShim ==
  \E data \in ShimData, r \in RandomSuffixes, elapsed \in ElapsedMillis :
    handleMessage(data, r, elapsed) /\ UNCHANGED <<relayVars, adapterVars>>

IdsStarts == handleStart /\ UNCHANGED serverVars

IdsEnable == MountListener /\ UNCHANGED serverVars

IdsConnects ==
  \E s \in SockIds : SocketOnConnect(s) /\ UNCHANGED serverVars

IdsInjects ==
  Dispatch(Ev("addConsoleMessage", <<[type |-> "info", message |-> "m"]>>))
    /\ UNCHANGED serverVars

NextIds == IdsShim \/ IdsStarts \/ IdsEnable \/ IdsConnects \/ IdsInjects

SpecIds == Init /\ [][NextIds]_vars

\* ---- SpecStart: the relay starts while other programs hold some ports
InitStart ==
  /\ PeersInit /\ StartInit
  /\ AdapterInit /\ SessionInit /\ PageInit /\ PreviewInit /\ LoadInit

StartGivesUp == TryPortGivesUp /\ UNCHANGED <<adapterVars, browserVars>>

StartCreatesServer == TryPortCreatesServer /\ UNCHANGED <<adapterVars, browserVars>>

StartCatchesInUse == TryPortCatchesInUse /\ UNCHANGED <<adapterVars, browserVars>>

StartListens == ListenSucceeds /\ UNCHANGED <<adapterVars, browserVars>>

StartListenError == ListenEmitsError /\ UNCHANGED <<adapterVars, browserVars>>

StartPeerConnects ==
  /\ relayPc = "serving"
  /\ \E p \in Peers : OnConnection(p) /\ UNCHANGED <<adapterVars, browserVars>>

StartPeerDisconnects ==
  /\ relayPc = "serving"
  /\ \E p \in Peers : OnDisconnect(p) /\ UNCHANGED <<adapterVars, browserVars>>

NextStart ==
  \/ StartGivesUp \/ StartCreatesServer \/ StartCatchesInUse \/ StartListens
  \/ StartListenError \/ StartPeerConnects \/ StartPeerDisconnects

SpecStart == InitStart /\ [][NextStart]_vars

\* ---- SpecSynth: one synthesis after another, the page's effects flushed
\* before the next user operation
SynthDeletes ==
  /\ EffectsFlushed
  /\ \E id \in FileIds(rendered) : DeleteFile(id) /\ UNCHANGED serverVars

SynthSelects ==
  /\ EffectsFlushed
  /\ \E id \in FileIds(rendered) : FileSelect(id) /\ UNCHANGED serverVars

SynthCloses ==
  /\ EffectsFlushed
  /\ \E id \in FileIds(rendered) : CloseTab(id) /\ UNCHANGED serverVars

SynthRenamesProject ==
  /\ EffectsFlushed
  /\ \E n \in ProjectNames : RenameProject(n) /\ UNCHANGED serverVars

SynthUpdates == UpdateIframe /\ UNCHANGED <<relayVars, adapterVars>>

NextSynth ==
  \/ SynthDeletes \/ SynthSelects \/ SynthCloses \/ SynthRenamesProject
  \/ SynthUpdates

SpecSynth == Init /\ [][NextSynth]_vars

\* ---- SpecUpdate: code updates of the relay, tabs being closed meanwhile
UpdateCodes == {"let r = 2;", ""}

UpdateEnable == MountListener /\ UNCHANGED serverVars

UpdateConnects ==
  \E s \in SockIds : SocketOnConnect(s) /\ UNCHANGED serverVars

UpdateReceives ==
  \E c \in UpdateCodes :
    Dispatch(Ev("codeUpdate", <<[code |-> c]>>)) /\ UNCHANGED serverVars

UpdateRenders == Render /\ UNCHANGED serverVars

UpdateRefEffect == UpdateCallbacksRef /\ UNCHANGED serverVars

UpdateUserCloses ==
  \E id \in FileIds(rendered) : CloseTab(id) /\ UNCHANGED serverVars

NextUpdate ==
  \/ UpdateEnable \/ UpdateConnects \/ UpdateReceives \/ UpdateRenders
  \/ UpdateRefEffect \/ UpdateUserCloses

SpecUpdate == Init /\ [][NextUpdate]_vars

\* ---- SpecPersist: the project page with its auto-save and ProjectManager
InitPersist ==
  /\ RelayInit /\ AdapterInit /\ SessionInit /\ PageInit /\ PreviewInit
  /\ PersistInit

\* the auto-save effect has run for the rendered project
Persisted == autoSaved = rendered

PersistEdits ==
  /\ Persisted
  /\ \E c \in Contents : FileChange(c) /\ UNCHANGED serverVars

\* a click on a file that is not the active one (a click on the active file
\* sets a project equal to the rendered one)
PersistSelects ==
  /\ Persisted
  /\ \E id \in FileIds(rendered) \ {rendered.activeFile} :
       FileSelect(id) /\ UNCHANGED serverVars

PersistAutoSaves == AutoSaveEffect /\ UNCHANGED serverVars

PersistMounts == Persisted /\ ManagerMount /\ UNCHANGED serverVars

PersistSaves ==
  /\ Persisted
  /\ \E notify \in BOOLEAN : ManagerSave(notify) /\ UNCHANGED serverVars

PersistNew == Persisted /\ ManagerNew /\ UNCHANGED serverVars

NextPersist ==
  \/ PersistEdits \/ PersistSelects \/ PersistAutoSaves \/ PersistMounts
  \/ PersistSaves \/ PersistNew

SpecPersist == InitPersist /\ [][NextPersist]_vars

\* ---- SpecPayload: peers that send events with any payload, or with none
LooseNames == {"codeUpdate", "createFile", "projectState", "selectFile"}

LooseEvents ==
  {Ev(n, <<>>) : n \in LooseNames}
  \cup {Ev(n, <<p>>) : n \in LooseNames, p \in {NullPayload, [v |-> "p1"]}}

PayloadConnects ==
  \E p \in Peers : OnConnection(p) /\ UNCHANGED <<adapterVars, browserVars>>

PayloadDisconnects ==
  \E p \in Peers : OnDisconnect(p) /\ UNCHANGED <<adapterVars, browserVars>>

PayloadEmits ==
  \E p \in Peers, ev \in LooseEvents :
    OnEvent(p, ev) /\ UNCHANGED <<adapterVars, browserVars>>

PayloadReceives ==
  \E q \in Peers : TakeFromInbox(q) /\ UNCHANGED <<adapterVars, browserVars>>

NextPayload ==
  PayloadConnects \/ PayloadDisconnects \/ PayloadEmits \/ PayloadReceives

SpecPayload == Init /\ [][NextPayload]_vars

\* ---- SpecTypes: the console fed by the shim, and by the adapter's
\* add_console_message through the relay
InjectedMessages ==
  {[type |-> t, message |-> "m", timestamp |-> 0] : t \in MessageTypes}

TypesShim ==
  \E call \in ShimCalls, r \in RandomSuffixes, elapsed \in ElapsedMillis :
    handleMessage(sendConsoleMessage(call, "m", now), r, elapsed)
      /\ UNCHANGED <<relayVars, adapterVars>>

TypesEnable == MountListener /\ UNCHANGED serverVars

TypesConnects ==
  \E s \in SockIds : SocketOnConnect(s) /\ UNCHANGED serverVars

TypesInjects ==
  \E m \in InjectedMessages :
    Dispatch(Ev("addConsoleMessage", <<m>>)) /\ UNCHANGED serverVars

TypesClears == Dispatch(Ev("clearConsole", NoArgs)) /\ UNCHANGED serverVars

NextTypes ==
  TypesShim \/ TypesEnable \/ TypesConnects \/ TypesInjects \/ TypesClears

SpecTypes == Init /\ [][NextTypes]_vars

\* ---- SpecKinds: files created, uploaded and renamed under names with and
\* without an extension
KindNames == {"css", "a.JS", "b.xyz"}

KindRenames == {"json", "c.d"}

UploadContents == {"", "u"}

KindAdds == \E n \in KindNames : AddFile(n) /\ UNCHANGED serverVars

KindUploads ==
  \E n \in KindNames, c \in UploadContents :
    FileUpload(n, c) /\ UNCHANGED serverVars

KindRenamesFile ==
  \E id \in FileIds(rendered), n \in KindRenames :
    RenameFile(id, n) /\ UNCHANGED serverVars

NextKinds == KindAdds \/ KindUploads \/ KindRenamesFile

SpecKinds == Init /\ [][NextKinds]_vars

\* ---- SpecTabs: files selected, closed, added and deleted
TabsSelects ==
  \E id \in FileIds(rendered) : FileSelect(id) /\ UNCHANGED serverVars

TabsCloses ==
  \E id \in FileIds(rendered) : CloseTab(id) /\ UNCHANGED serverVars

TabsAdds == \E n \in AddNames : AddFile(n) /\ UNCHANGED serverVars

TabsDeletes ==
  \E id \in FileIds(rendered) : DeleteFile(id) /\ UNCHANGED serverVars

NextTabs == TabsSelects \/ TabsCloses \/ TabsAdds \/ TabsDeletes

SpecTabs == Init /\ [][NextTabs]_vars

\* ---- SpecCreate: files created and uploaded, also within one millisecond
MaxFiles == 5

CreateNames == {"a.js"}

CreateAdds ==
  /\ Len(rendered.files) < MaxFiles
  /\ \E n \in CreateNames, elapsed \in ElapsedMillis :
       AddFileAt(n, elapsed) /\ UNCHANGED serverVars

CreateUploads ==
  /\ Len(rendered.files) < MaxFiles
  /\ \E n \in CreateNames, elapsed \in ElapsedMillis :
       FileUploadAt(n, "u", elapsed) /\ UNCHANGED serverVars

CreateDeletes ==
  \E id \in FileIds(rendered) : DeleteFile(id) /\ UNCHANGED serverVars

CreateSelects ==
  \E id \in FileIds(rendered) : FileSelect(id) /\ UNCHANGED serverVars

NextCreate == CreateAdds \/ CreateUploads \/ CreateDeletes \/ CreateSelects

SpecCreate == Init /\ [][NextCreate]_vars

\* ---- SpecStale: code updates of the relay between the handlers of the page
\* and its renders
StaleCodes == {"let r = 2;"}

StaleEnable == MountListener /\ UNCHANGED serverVars

StaleConnects ==
  \E s \in SockIds : SocketOnConnect(s) /\ UNCHANGED serverVars

StaleReceives ==
  \E c \in StaleCodes :
    Dispatch(Ev("codeUpdate", <<[code |-> c]>>)) /\ UNCHANGED serverVars

StaleRenders == Render /\ UNCHANGED serverVars

StaleRefEffect == UpdateCallbacksRef /\ UNCHANGED serverVars

StaleUserSelects ==
  \E id \in FileIds(rendered) : FileSelect(id) /\ UNCHANGED serverVars

StaleUploadLoads ==
  \E n \in CreateNames : UploadLoads(n, "u") /\ UNCHANGED serverVars

NextStale ==
  \/ StaleEnable \/ StaleConnects \/ StaleReceives \/ StaleRenders
  \/ StaleRefEffect \/ StaleUserSelects \/ StaleUploadLoads

SpecStale == Init /\ [][NextStale]_vars
(***************************************************************************)
(* Properties                                                              *)
(***************************************************************************)

\* what a broadcast excluding the sender emits for the event handled last
ExpectedBroadcast == {<<q, lastRelay.ev>> : q \in lastRelay.others}

C2_ForwardsEveryName ==
  (lastRelay # None /\ lastRelay.ev.name \in UnknownEvents \cup ResponseEvents)
    => relayOut = ExpectedBroadcast

\* the local state mutation that corresponds to a relay event, as a relation
\* between the page state before the listener handled it (pre) and now
Mutated(ev, pre) ==
  LET arg == IF ev.args = <<>> THEN Undefined ELSE ev.args[1]
      str == IF "str" \in DOMAIN arg THEN arg.str ELSE ""
  IN CASE ev.name = "codeUpdate" ->
            project = handleCodeUpdate(pre.project, arg.code, now)
       [] ev.name = "startExecution" -> isRunning
       [] ev.name = "stopExecution" -> ~isRunning
       [] ev.name = "toggleExecution" -> isRunning = ~pre.isRunning
       [] ev.name = "clearConsole" -> consoleMessages = <<>>
       [] ev.name = "addConsoleMessage" ->
            consoleMessages = pre.consoleMessages \o <<arg>>
       [] ev.name = "selectFile" -> project.activeFile = str
       [] ev.name = "createFile" ->
            \E i \in 1..Len(project.files) : project.files[i].name = arg.name
       [] ev.name = "deleteFile" ->
            \A i \in 1..Len(project.files) :
              project.files[i].id # str /\ project.files[i].name # str
       [] ev.name = "toggleSidebar" -> sidebarOpen = ~pre.sidebarOpen
       [] ev.name = "updateProjectName" -> project.name = str
       [] ev.name = "backToDashboard" -> route = "dashboard"
       [] OTHER -> TRUE

\* C3: with the adapter and a browser session both connected to the relay,
\* every state-changing controller operation causes the corresponding local
\* state mutation in the session: once the session's listener has handled
\* the operation's event, the mutation has been made.
C3_OperationMutatesSession ==
  lastDispatch # None => Mutated(lastDispatch.ev, lastDispatch.pre)

\* the operations of the adapter that change state in the session
StateChanging(op) == op # "check_connection"

\* C4: a state-changing controller operation invoked while no relay
\* connection is live emits no relay event and returns a failure result
\* (the invocation completes with a result, it raises nothing).
C4_NotLiveFails ==
  (lastCall # None /\ StateChanging(lastCall.op) /\ ~lastCall.live)
    => lastCall.emitted = <<>> /\ ~lastCall.result.success

C4_Witness ==
  /\ lastCall # None
  /\ lastCall.op = "start_execution"
  /\ ~lastCall.live
  /\ editorSocket = "waiting"
  /\ adapterOut # <<>>
  /\ ~lastCall.result.success

\* the relay event the catalog assigns to an operation, with the payload
\* built from the operation's arguments
CatalogEvent(op, args, t) ==
  CASE op = "update_code" -> Ev("codeUpdate", <<[code |-> args.code]>>)
    [] op = "start_execution" -> Ev("startExecution", <<>>)
    [] op = "stop_execution" -> Ev("stopExecution", <<>>)
    [] op = "toggle_execution" -> Ev("toggleExecution", <<>>)
    [] op = "clear_console" -> Ev("clearConsole", <<>>)
    [] op = "add_console_message" ->
         Ev("addConsoleMessage",
            <<[type |-> args.type, message |-> args.message, timestamp |-> t]>>)
    [] op = "select_file" -> Ev("selectFile", <<Str(args.filename)>>)
    [] op = "create_file" ->
         Ev("createFile", <<[name |-> args.name, content |-> args.content]>>)
    [] op = "delete_file" -> Ev("deleteFile", <<Str(args.filename)>>)
    [] op = "toggle_sidebar" -> Ev("toggleSidebar", <<>>)
    [] op = "update_project_name" -> Ev("updateProjectName", <<Str(args.name)>>)
    [] op = "go_to_dashboard" -> Ev("backToDashboard", <<>>)

\* C5: each invocation of a state-changing controller operation while
\* connected emits exactly one relay event, of the kind the catalog assigns
\* to the operation, with the payload built from its arguments for every
\* argument value, the empty string included; check connection emits none.
C5_OneCatalogEvent ==
  (lastCall # None /\ lastCall.live)
    => IF StateChanging(lastCall.op)
         THEN lastCall.emitted =
                <<CatalogEvent(lastCall.op, lastCall.args, lastCall.now)>>
         ELSE lastCall.emitted = <<>>

\* C6: after every sequence of project operations (select file, close tab,
\* add file, delete file, rename file, content edit) every id in
\* Project.openTabs is the id of a file in Project.files.
C6_OpenTabsReferenceFiles ==
  \A i \in 1..Len(project.openTabs) : project.openTabs[i] \in FileIds(project)

\* C7: after every sequence of file add, file delete and file rename
\* operations from the default project, Project.activeFile is undefined or
\* the id of a file present in Project.files.
C7_ActiveFileUndefinedOrPresent ==
  project.activeFile = UndefinedId \/ project.activeFile \in FileIds(project)

C7_Witness ==
  /\ "sketch" \notin FileIds(project)
  /\ Len(project.files) = 2
  /\ project.activeFile = "index"

\* C8: Project.activeFile, when set, references a file present in
\* Project.files in every reachable state of the session.
C8_ActiveFileNeverDangles ==
  \/ project.activeFile = UndefinedId
  \/ \E i \in 1..Len(project.files) : project.files[i].id = project.activeFile

\* C9: disabling the relay connection in the session, in any connection
\* state, leaves the session with no live connection and no pending
\* reconnection attempt: while the feature is disabled no socket of the
\* session is connected, connecting or waiting to reconnect.
C9_DisabledHasNoConnection ==
  ~enableWsListener => \A s \in SockIds : ~Open(s)

\* C10: during one connection lifetime of the session listener exactly one
\* socket exists and each relay event name has exactly one registered
\* handler, and an event received after a re-render is dispatched to the
\* callbacks of the latest render.
C10_OneSocketLatestCallbacks ==
  /\ enableWsListener =>
       /\ \A s \in SockIds : Open(s) => s = CurrentSocket
       /\ socks[CurrentSocket].listeners = 1
  /\ lastDispatch # None => lastDispatch.closure = lastDispatch.renderedAt

\* the tag that references a file by src, as the default index.html writes it
ScriptSrcTag(name) == "<script src=\"" \o name \o "\"></script>"

\* the entry markup file of project P: the first file named index.html
EntryMarkup(P) ==
  {i \in 1..Len(P.files) :
     P.files[i].name = "index.html" /\ \A k \in 1..(i - 1) : P.files[k].name # "index.html"}

\* C11: for every project whose index.html contains a script tag whose src
\* equals the name of a script file of the project, the synthesized document
\* contains an inline script block holding that file's exact content, for
\* every content string, and no remaining script tag that references the
\* file by src (a tag the file's own content spells out is not counted).
C11_ScriptInlinedVerbatim ==
  previewOf # None =>
    \A i \in EntryMarkup(previewOf), j \in 1..Len(previewOf.files) :
      (/\ previewOf.files[j].type = "js"
       /\ StringIncludes(previewOf.files[i].content,
                         ScriptSrcTag(previewOf.files[j].name)))
      => /\ StringIncludes(htmlContent,
                           "<script>" \o previewOf.files[j].content \o "</script>")
         /\ \/ StringIncludes(previewOf.files[j].content, "src=")
            \/ ~StringIncludes(htmlContent, ScriptSrcTag(previewOf.files[j].name))

\* C12: in every synthesized document that has a head element, whatever the
\* markup of its start tag, the console-interception shim is the first child
\* of the head element and precedes every other script block.
C12_ShimFirstInHead ==
  (previewOf # None /\ StringIncludes(htmlContent, "<head"))
    => LET headTag == IndexOf(htmlContent, "<head", 1)
           tagEnd == IndexOf(htmlContent, ">", headTag)
       IN /\ tagEnd # 0
          /\ StartsWithAt(htmlContent, tagEnd + 1, consoleInterceptor)
          /\ IndexOf(htmlContent, "<script", 1) > tagEnd


\* every occurrence of the literal text pat in s replaced by to, from left to
\* right, and no other character of s changed
RECURSIVE ReplaceLiteralFrom(_, _, _, _)
ReplaceLiteralFrom(s, from, pat, to) ==
  Bind(IndexOf(s, pat, from),
       LAMBDA j : IF j = 0
                    THEN SubSeq(s, from, Len(s))
                    ELSE SubSeq(s, from, j - 1) \o to
                         \o ReplaceLiteralFrom(s, j + Len(pat), pat, to))

\* attr="name", the reference the claims speak of
Reference(attr, name) == attr \o "=\"" \o name \o "\""

\* the last user operation renamed a file of the given type
RenamedA(type) ==
  /\ lastOp # None
  /\ lastOp.kind = "rename"
  /\ Trim(lastOp.arg) # ""
  /\ lastOp.id \in FileIds(lastOp.pre)
  /\ FindFile(lastOp.pre, lastOp.id).type = type

\* the attribute that references a file of the given type
RefAttr(type) == IF type = "js" THEN "src" ELSE "href"

\* C13: renaming a script file from name O to name N rewrites every src="O"
\* reference in the project's markup files to src="N" and changes no other
\* byte of those files' content; likewise the href="O" references when a
\* style file is renamed.
C13_RenameRewritesReferencesOnly ==
  \A type \in {"js", "css"} :
    RenamedA(type) =>
      LET O == FindFile(lastOp.pre, lastOp.id).name
          N == FindFile(project, lastOp.id).name
      IN \A k \in 1..Len(project.files) :
           (lastOp.pre.files[k].type = "html" /\ lastOp.pre.files[k].id # lastOp.id)
             => project.files[k].content =
                  ReplaceLiteralFrom(lastOp.pre.files[k].content, 1,
                                     Reference(RefAttr(type), O),
                                     Reference(RefAttr(type), N))

\* some markup file of P references name by a src or href attribute
Referenced(P, name) ==
  \E k \in 1..Len(P.files), attr \in {"src", "href"}, q \in {"\"", "'"} :
    /\ P.files[k].type = "html"
    /\ StringIncludes(P.files[k].content, attr \o "=" \o q \o name \o q)

\* C14: renaming a file whose name no src or href attribute of any markup
\* file references leaves the content of every other file unchanged, and a
\* rename never changes a file's id, the order of the file list, activeFile
\* or openTabs.
C14_RenameFrame ==
  (lastOp # None /\ lastOp.kind = "rename") =>
    /\ [k \in 1..Len(project.files) |-> project.files[k].id]
         = [k \in 1..Len(lastOp.pre.files) |-> lastOp.pre.files[k].id]
    /\ project.activeFile = lastOp.pre.activeFile
    /\ project.openTabs = lastOp.pre.openTabs
    /\ (/\ lastOp.id \in FileIds(lastOp.pre)
        /\ ~Referenced(lastOp.pre, FindFile(lastOp.pre, lastOp.id).name))
       => \A k \in 1..Len(project.files) :
            project.files[k].id # lastOp.id
              => project.files[k].content = lastOp.pre.files[k].content

\* the last user operation deleted a file of the project
Deleted == lastOp # None /\ lastOp.kind = "delete" /\ lastOp.id \in FileIds(lastOp.pre)

\* the files that remain after the last delete, in list order
Remaining == SelectSeq(lastOp.pre.files, LAMBDA file : file.id # lastOp.id)

\* C15: deleting the active file while other files remain makes the first
\* remaining file in list order the active file; deleting the only file
\* leaves activeFile undefined; deleting a file that is not active leaves
\* activeFile unchanged.
C15_DeleteActivatesFirstRemaining ==
  Deleted =>
    /\ project.files = Remaining
    /\ IF lastOp.pre.activeFile # lastOp.id
         THEN project.activeFile = lastOp.pre.activeFile
         ELSE IF Remaining # <<>>
                THEN project.activeFile = Remaining[1].id
                ELSE project.activeFile = UndefinedId

\* the active file was deleted while at least two others remained
C15_Witness ==
  /\ Deleted
  /\ lastOp.pre.activeFile = lastOp.id
  /\ Len(project.files) >= 2
  /\ project.activeFile = project.files[1].id

\* the session's listener has just handled a relay event of this name
Handled(name) == lastDispatch # None /\ lastDispatch.ev.name = name

\* the payload of the event the listener has just handled
HandledPayload == lastDispatch.ev.args[1]

\* C16: a createFile event with payload {name, content}, received on a
\* project that has no file of that name, adds exactly one file at the end
\* of the file list, with that name, that content and the type inferred from
\* the name's extension, and makes it the active file.
C16_CreateFileEventAddsFile ==
  (/\ Handled("createFile")
   /\ \A i \in 1..Len(lastDispatch.pre.project.files) :
        lastDispatch.pre.project.files[i].name # HandledPayload.name)
  => LET before == lastDispatch.pre.project.files
         n == Len(project.files)
     IN /\ n = Len(before) + 1
        /\ SubSeq(project.files, 1, n - 1) = before
        /\ project.files[n].name = HandledPayload.name
        /\ project.files[n].content = HandledPayload.content
        /\ project.files[n].type = getFileTypeFromName(HandledPayload.name)
        /\ project.activeFile = project.files[n].id

\* C17: on receipt of an addConsoleMessage event with payload {type, message,
\* timestamp} the session's log list grows by exactly one entry, appended
\* last, whose type is the payload's type and whose content is the payload's
\* message; all earlier entries are unchanged.
C17_ConsoleEventAppendsEntry ==
  Handled("addConsoleMessage") =>
    LET before == lastDispatch.pre.consoleMessages
        n == Len(consoleMessages)
    IN /\ n = Len(before) + 1
       /\ SubSeq(consoleMessages, 1, n - 1) = before
       /\ consoleMessages[n].type = HandledPayload.type
       /\ consoleMessages[n].content = HandledPayload.message

\* C18: a setConsoleHeight event with integer value h sets the session's
\* console height to min(500, max(50, h)), so that 600 yields 500 and 10
\* yields 50, and the console height is within [50, 500] in every reachable
\* state.
C18_ConsoleHeightEventClamped ==
  /\ consoleHeight \in 50..500
  /\ Handled("setConsoleHeight")
       => consoleHeight = Min(500, Max(50, HandledPayload))

\* what peer q has been sent since it connected, taken or still in its inbox
Stream(q) == received[q] \o inboxFrom[q]

GaveUp == editorSocket = "closed"

\* what holds of the adapter's connection in every state
OneConnectionBoundedRetries ==
  /\ nIoCalls <= 1
  /\ nIoCalls = 1 <=> adapterPc = "running"
  /\ reconnAttempts <= 5
  /\ GaveUp => ~isConnectedToEditor
  /\ (GaveUp /\ lastCall # None /\ StateChanging(lastCall.op))
       => ~lastCall.result.success /\ lastCall.emitted = <<>>

\* what holds of every step of the adapter
NoLaterConnection ==
  /\ GaveUp => GaveUp'
  /\ nCalls' # nCalls => (nIoCalls' = nIoCalls /\ editorSocket' = editorSocket)
  /\ nIoCalls' # nIoCalls => adapterPc = "init"

C21_StoppedPreviewFrozen ==
  [][(~isRunning /\ ~isRunning') => UNCHANGED <<htmlContent, nLoads>>]_vars

\* the last user operation was a start while execution was stopped
StartedAfterStop ==
  lastOp # None /\ lastOp.kind = "start" /\ lastOp.arg = "stopped"

\* the numbers of loads the bounded runs can reach
LoadCounts == 0..(MaxOps + 1)

\* C22: a start issued after a stop sets the running flag, empties the
\* console log list, and loads a freshly synthesized document into the
\* preview even when the project is unchanged since the last load.
C22_StartReloads ==
  /\ [](StartedAfterStop => (isRunning /\ consoleMessages = <<>>))
  /\ \A n \in LoadCounts :
       (StartedAfterStop /\ nLoads = n) ~> (nLoads > n)

\* s ends with suffix
EndsWith(s, suffix) ==
  Len(s) >= Len(suffix) /\ SubSeq(s, Len(s) - Len(suffix) + 1, Len(s)) = suffix

\* the positions of html where a src attribute names the runtime library
LibraryReferences(html) ==
  {i \in 1..Len(html) :
     /\ StartsWithAt(html, i, "src=\"")
     /\ Bind(IndexOf(html, "\"", i + 5),
          LAMBDA close :
            /\ close # 0
            /\ \/ EndsWith(SubSeq(html, i + 5, close - 1), "p5.min.js")
               \/ EndsWith(SubSeq(html, i + 5, close - 1), "p5.js"))}

\* C23: every synthesized document references the runtime library exactly
\* once: when the base document has no reference, one is inserted immediately
\* before the closing head tag, and when it has one, none is added while the
\* existing one is kept, whatever text the project's script and style files
\* contain.
C23_LibraryReferencedOnce ==
  previewOf # None =>
    /\ Cardinality(LibraryReferences(htmlContent)) = 1
    /\ \A i \in EntryMarkup(previewOf) :
         LibraryReferences(previewOf.files[i].content) = {}
           => StringIncludes(htmlContent, P5Tag \o "\n</head>")

\* the indexes of the files of P of the given type
FilesOfType(P, type) == {i \in 1..Len(P.files) : P.files[i].type = type}

\* C24: when the project has no file named index.html, the synthesized
\* document contains the content of every style file and the content of
\* every script file of the project, with the script contents in file-list
\* order.
C24_FallbackHoldsEveryFile ==
  (previewOf # None /\ EntryMarkup(previewOf) = {}) =>
    /\ \A i \in FilesOfType(previewOf, "css") :
         StringIncludes(htmlContent, "<style>" \o previewOf.files[i].content \o "</style>")
    /\ \A i \in FilesOfType(previewOf, "js") :
         StringIncludes(htmlContent, "<script>" \o previewOf.files[i].content \o "</script>")
    /\ \A i, j \in FilesOfType(previewOf, "js") :
         i < j =>
           Bind(IndexOf(htmlContent, "<script>" \o previewOf.files[i].content \o "</script>", 1),
             LAMBDA at :
               IndexOf(htmlContent,
                       "<script>" \o previewOf.files[j].content \o "</script>",
                       at + 1) # 0)

\* C25: document synthesis returns a document and raises no exception for
\* every project, including a project with no index.html and no script
\* files, a project whose script file is never referenced, and a project
\* whose file names contain arbitrary characters.
C25_SynthesisNeverThrows ==
  /\ ~updateThrew
  /\ (previewOf # None /\ previewOf = rendered) => htmlContent # ""

\* the stored item a load path reads first is missing, is not JSON, or is
\* the JSON of a value that is not what the path expects
BadData(path, stored) ==
  LET item == IF path = "home" THEN stored["current_project"] ELSE stored["p5_projects"]
  IN \/ item = Missing
     \/ item = Unparsable
     \/ item.value.type # (IF path = "home" THEN "project" ELSE "array")

\* C26: when persisted project data is missing, cannot be parsed, or parses
\* to a value that is not a project, every load path catches the failure and
\* the session continues with a default project (the project page by going
\* back to the editor page); no load of persisted data raises an uncaught
\* exception.
C26_LoadFailuresCaught ==
  loadResult # None =>
    /\ loadResult.outcome # "uncaught"
    /\ (loadResult.path = "home" /\ BadData("home", loadResult.stored))
         => loadResult.state = JsonProject("default", DEFAULT_PROJECT)

\* the last user operation gave a file of the project a name that another
\* file of the project has
RenamedToUsedName ==
  /\ lastOp # None
  /\ lastOp.kind = "rename"
  /\ lastOp.id \in FileIds(lastOp.pre)
  /\ \E i \in 1..Len(lastOp.pre.files) :
       /\ lastOp.pre.files[i].id # lastOp.id
       /\ lastOp.pre.files[i].name =
            FinalName(FindFile(lastOp.pre, lastOp.id).name, lastOp.arg)

\* C27: adding a file with an empty name, renaming a file to an empty name,
\* and renaming a file to a name already used by another file of the project
\* are each rejected and leave the project state completely unchanged.
C27_InvalidNamesRejected ==
  /\ (lastOp # None /\ lastOp.kind \in {"add", "rename"} /\ lastOp.arg = "")
       => project = lastOp.pre
  /\ RenamedToUsedName => project = lastOp.pre

\* the content of the active file of project P
ActiveContent(P) == FindFile(P, P.activeFile).content

\* the last operation applied to the project wrote the active file: an edit
\* in the editor or a code update from the relay
LastWrite == lastOp # None /\ lastOp.kind \in {"edit", "update"}

\* the preview was synthesized from the current project
PreviewCurrent == previewOf = project /\ ~updateThrew

\* the entry markup of P is the active file, or is the default one, which
\* references sketch.js and style.css
ActiveInPreview(P) ==
  \/ FindFile(P, P.activeFile).name = "index.html"
  \/ FindFile(P, "index").content = FindFile(DEFAULT_PROJECT, "index").content

\* C28: when a local editor edit and a relay code-update are both applied to
\* the project, in either order, the active file's content afterwards equals
\* the content written by whichever of the two was applied last, and the next
\* synthesized preview is built from that content.
C28_LastWriteWins ==
  LastWrite =>
    /\ project.activeFile = lastOp.id
    /\ ActiveContent(project) = lastOp.arg
    /\ PreviewCurrent =>
         /\ htmlContent = SynthesizeDocument(project)
         /\ ActiveInPreview(project) => StringIncludes(htmlContent, lastOp.arg)

\* the relay's code update was applied on top of a local edit, and the
\* preview was synthesized after it
C28_Witness ==
  /\ LastWrite
  /\ lastOp.kind = "update"
  /\ ActiveContent(lastOp.pre) \in EditorContents
  /\ PreviewCurrent
  /\ ActiveInPreview(project)

\* the file, tab and content operations of the user on the project
ProjectOps == {"select", "close", "add", "delete", "rename", "edit", "name"}

\* the last operation was one of kinds and its handler reached setProject
\* (an empty file name and a blank new name make the handler return before)
Operated(kinds) ==
  /\ lastOp # None
  /\ lastOp.kind \in kinds
  /\ lastOp.kind = "add" => lastOp.arg # ""
  /\ lastOp.kind = "rename" => Trim(lastOp.arg) # ""

\* C29: every file, tab or content operation on a project (select file, close
\* tab, add file, delete file, rename file, content edit, project rename)
\* stamps Project.lastModified with the time of that operation.
C29_EveryOperationStamps ==
  Operated(ProjectOps) => project.lastModified = lastOp.at

\* C30: all entries of the session's console log list have pairwise distinct
\* ids, for any number of messages appended at any rate, including several
\* within the same millisecond, whether they come from the shim or are
\* injected by the controller.
C30_ConsoleIdsDistinct ==
  \A i, j \in 1..Len(consoleMessages) :
    i # j => consoleMessages[i].id # consoleMessages[j].id

\* the first candidate port no other program holds, NoPort when all are held
FirstFreePort ==
  IF CandidatePorts \subseteq portsInUse THEN NoPort
  ELSE tryPorts[CHOOSE i \in 1..Len(tryPorts) :
                  /\ tryPorts[i] \notin portsInUse
                  /\ \A k \in 1..(i - 1) : tryPorts[k] \in portsInUse]

\* the relay process has ended with a failure
StartFailed == relayPc \in {"exited", "crashed"}

\* C31: at startup the relay tries ports 3001, 3002, 3003, 3004 in that order
\* and binds the first one that is free: a port already in use makes it move
\* on to the next candidate, and only when all four are unavailable does it
\* exit with a failure.
C31_FirstFreePortBound ==
  /\ relayPc = "serving" => currentPort = FirstFreePort
  /\ StartFailed => FirstFreePort = NoPort

\* projects P and Q have identical files: the same names, types and contents
\* in the same order
SameFiles(P, Q) ==
  /\ Len(P.files) = Len(Q.files)
  /\ \A i \in 1..Len(P.files) :
       /\ P.files[i].name = Q.files[i].name
       /\ P.files[i].type = Q.files[i].type
       /\ P.files[i].content = Q.files[i].content

\* this step synthesizes a document, and one was synthesized before
Resynthesized == previewOf # None /\ nLoads' = nLoads + 1

\* the project has a file named index.html
HasIndexHtml(P) == \E i \in 1..Len(P.files) : P.files[i].name = "index.html"

\* C32 (as stated): synthesizing the preview document twice from projects
\* with identical files yields byte-identical documents, independent of the
\* time of synthesis and of any earlier synthesis.
C32_Original ==
  [][(Resynthesized /\ SameFiles(previewOf, previewOf'))
       => htmlContent' = htmlContent]_vars

\* C32 (amended): synthesizing twice from projects with identical files and,
\* when they have no index.html, the same project name yields byte-identical
\* documents, whatever the time of synthesis, the active file, the open tabs
\* and the syntheses made before.
C32_SameFilesSameDocument ==
  [][(/\ Resynthesized
      /\ SameFiles(previewOf, previewOf')
      /\ (HasIndexHtml(previewOf) \/ previewOf'.name = previewOf.name))
       => htmlContent' = htmlContent]_vars

\* a second synthesis was made, at a later time, from a project that differs
\* from the one synthesized before in its tabs and its stamp only
C32_Witness ==
  /\ nLoads >= 2
  /\ previewOf = rendered
  /\ lastOp # None
  /\ lastOp.kind = "close"
  /\ lastOp.pre # previewOf
  /\ SameFiles(lastOp.pre, previewOf)
  /\ ~HasIndexHtml(previewOf)

\* the listener has just dispatched a codeUpdate event that carries {code}
CodeUpdateDispatched ==
  /\ lastDispatch # None
  /\ lastDispatch.ev.name = "codeUpdate"
  /\ lastDispatch.ev.args # <<>>
  /\ "code" \in DOMAIN lastDispatch.ev.args[1]

\* C33: a code-update event with payload {code} sets the content of the
\* session's active file to code for every string code, including the empty
\* string; when no file is active the project is left unchanged.
C33_CodeUpdateSetsActiveContent ==
  CodeUpdateDispatched =>
    IF lastDispatch.pre.project.activeFile = UndefinedId
      THEN project = lastDispatch.pre.project
      ELSE /\ project.activeFile = lastDispatch.pre.project.activeFile
           /\ ActiveContent(project) = lastDispatch.ev.args[1].code

\* the entries of the saved collection for the project of the page
SavedEntries ==
  IF /\ Truthy_Item(storage["p5_projects"])
     /\ ~ParseThrows(storage["p5_projects"])
     /\ storage["p5_projects"].value.type = "array"
    THEN {i \in 1..Len(storage["p5_projects"].value.items) :
            storage["p5_projects"].value.items[i].id = projectId}
    ELSE {}

\* C34: after every project mutation the persisted current-project slot holds
\* the in-memory project, and when the project has an entry in the saved
\* collection that entry holds it too; no later action (save, new project,
\* mounting the project manager with its own cached collection) replaces a
\* project's persisted entry with an older snapshot.
C34_PersistedIsCurrent ==
  Persisted =>
    /\ storage["current_project"] = Json(Stored(project))
    /\ \A i \in SavedEntries :
         storage["p5_projects"].value.items[i] = Stored(project)

\* C35: the relay forwards an event without depending on its payload's shape:
\* an event of any catalog name sent with a missing, null or malformed
\* payload is still broadcast to the other peers, and the relay keeps serving
\* all peers afterwards.
C35_ForwardsAnyPayload ==
  /\ relayPc = "serving"
  /\ (lastRelay # None /\ lastRelay.ev.name \in CommandEvents) =>
       \A q \in lastRelay.others :
         \E pr \in relayOut : pr[1] = q /\ pr[2].name = lastRelay.ev.name

\* the types of LogMessage
LogTypes == {"error", "warning", "log", "info"}

DerivedType(name) ==
  IF StringIncludes(name, ".") /\ ToLowerCase(SplitPop(name)) \in FileTypes
    THEN ToLowerCase(SplitPop(name))
    ELSE "txt"

\* C37: after any sequence of file create, upload and rename operations, each
\* file's type equals the type derived from its current name, including for
\* names with no dot and names with an unknown extension.
C37_TypeFollowsName ==
  \A i \in 1..Len(project.files) :
    project.files[i].type = DerivedType(project.files[i].name)

\* the active file of P, when there is one, has an open tab
ActiveHasTab(P) ==
  P.activeFile # UndefinedId =>
    \E i \in 1..Len(P.openTabs) : P.openTabs[i] = P.activeFile

\* C38: whenever Project.activeFile is set it is a member of
\* Project.openTabs, after any sequence of select file, close tab, add file
\* and delete file operations.
C38_ActiveFileHasTab == ActiveHasTab(project)

\* the ids of the files of P are pairwise distinct
DistinctIds(P) ==
  \A i, j \in 1..Len(P.files) : P.files[i].id = P.files[j].id => i = j

\* C39: the ids of the files of a project are pairwise distinct after any
\* sequence of file creations and uploads, including two creations that
\* happen within the same millisecond.
C39_FileIdsDistinct == DistinctIds(project)

\* P and Q differ at most in the content of the file that is active in Q
SameButActiveContent(P, Q) ==
  /\ P.activeFile = Q.activeFile
  /\ P.openTabs = Q.openTabs
  /\ P.name = Q.name
  /\ Len(P.files) = Len(Q.files)
  /\ \A i \in 1..Len(Q.files) :
       /\ P.files[i].id = Q.files[i].id
       /\ P.files[i].name = Q.files[i].name
       /\ P.files[i].type = Q.files[i].type
       /\ Q.files[i].id # Q.activeFile => P.files[i].content = Q.files[i].content

\* C40: a code-update changes only the active file's content and the
\* lastModified stamps: activeFile, openTabs, the project name, the file list
\* order, and every other file's id, name, type and content are the same as
\* immediately before the update was applied, also when another handler has
\* changed the project since the last render.
C40_CodeUpdateTouchesActiveOnly ==
  CodeUpdateDispatched => SameButActiveContent(project, lastDispatch.pre.project)
====
